---- MODULE Spec2Model ----
(***************************************************************************)
(* A model of ComponentGraph::try_new (construction and validation of the  *)
(* microgrid component graph) and of the meter-role queries on an accepted *)
(* graph.                                                                  *)
(*                                                                         *)
(* The components and the connections are consumed from two iterators: one *)
(* action per iteration of the loop that consumes them, with the item      *)
(* drawn from a bounded universe.  find_root runs when the iterator of     *)
(* components ends and validate when the iterator of connections ends;     *)
(* each of them, and every query, is one action.                           *)
(*                                                                         *)
(* A category is written with its Display spelling.  Battery(_) and        *)
(* EvCharger(_) carry a sub-type that no predicate of the program reads:   *)
(* one representative of each is kept.  "Electrolyzer" stands for the      *)
(* categories that have no validation rule of their own.                   *)
(***************************************************************************)
EXTENDS Integers, Sequences, FiniteSets, TLC

VARIABLES
    pc,             \* the position of try_new
    config,         \* ComponentGraphConfig
    components,     \* the components the iterator has yielded so far
    connections,    \* the connections the iterator has yielded so far
    nodes,          \* graph.raw_nodes(): the inserted components, in order
    node_indices,   \* NodeIndexMap: component id -> index into nodes
    raw_edges,      \* graph.raw_edges(): <<source index, target index>>
    edges,          \* EdgeMap: <<source index, target index>> -> connection
    root_id,        \* ComponentGraph.root_id
    result,         \* what try_new returned
    answer          \* what the last query on the accepted graph returned

vars == <<pc, config, components, connections, nodes, node_indices,
          raw_edges, edges, root_id, result, answer>>

-----------------------------------------------------------------------------
(* Bounds *)

MaxComponents == 3

MaxConnections == 3

MaxId == 2

MaxTopologyComponents == 4

MaxFormulaComponents == 4

MaxConsumerComponents == 5

MaxConsumerConnections == 6

MaxBatteryComponents == 5

MaxBatteryConnections == 4
MaxSearchComponents == 5
MaxSearchConnections == 4
MaxLeafId == 2
MaxOperandDepth == 1
MaxExprDepth == 4
MaxExprLeaves == 3
MaxStepComponents == 3
MaxStepConnections == 3

-----------------------------------------------------------------------------
(* Categories and their predicates *)

Categories ==
    {"Unspecified", "Grid", "Meter", "Battery", "UnspecifiedInverter",
     "SolarInverter", "BatteryInverter", "HybridInverter", "EVCharger",
     "CHP", "Electrolyzer"}

is_unspecified(cat) == cat = "Unspecified"

is_grid(cat) == cat = "Grid"

is_meter(cat) == cat = "Meter"

is_battery(cat) == cat = "Battery"

is_inverter(cat) ==
    cat \in {"UnspecifiedInverter", "SolarInverter", "BatteryInverter",
             "HybridInverter"}

\* is_battery_inverter without the arm of Inverter(Unspecified)
BatteryInverterIgnoringConfig(cat, cfg) == cat = "BatteryInverter"

is_battery_inverter(cat, cfg) ==
    CASE cat = "BatteryInverter" -> TRUE
      [] cat = "UnspecifiedInverter" -> cfg.allow_unspecified_inverters
      [] OTHER -> FALSE

is_pv_inverter(cat) == cat = "SolarInverter"

is_hybrid_inverter(cat) == cat = "HybridInverter"

is_unspecified_inverter(cat, cfg) ==
    CASE cat = "UnspecifiedInverter" -> ~cfg.allow_unspecified_inverters
      [] OTHER -> FALSE

is_ev_charger(cat) == cat = "EVCharger"

is_chp(cat) == cat = "CHP"

-----------------------------------------------------------------------------
(* Errors.  An error is its kind, the text of its description with the     *)
(* ids taken out of it, the ids in the order the text names them, and, for *)
(* the combined validation error, the errors it lists.                     *)

Error(kind, msg, ids) == [kind |-> kind, msg |-> msg, ids |-> ids, lines |-> <<>>]

NoError == Error("None", "", <<>>)

invalid_component(msg, ids) == Error("InvalidComponent", msg, ids)

invalid_connection(msg, ids) == Error("InvalidConnection", msg, ids)

invalid_graph(msg, ids) == Error("InvalidGraph", msg, ids)

Pending == [status |-> "Pending", error |-> NoError]

Ok == [status |-> "Ok", error |-> NoError]

Err(e) == [status |-> "Err", error |-> e]

-----------------------------------------------------------------------------
(* The configuration *)

Configs ==
    [allow_unconnected_components : BOOLEAN,
     allow_unspecified_inverters : BOOLEAN,
     allow_component_validation_failures : BOOLEAN]

DefaultConfig ==
    [allow_unconnected_components |-> FALSE,
     allow_unspecified_inverters |-> FALSE,
     allow_component_validation_failures |-> FALSE]

-----------------------------------------------------------------------------
(* Retrieval *)

Range(s) == {s[i] : i \in 1..Len(s)}

ComponentIds == {nodes[i].id : i \in 1..Len(nodes)}

\* component(id): the node with this id (the id is known)
component(cid) == nodes[node_indices[cid]]

category(cid) == component(cid).cat

\* petgraph keeps, per node, the list of its edges with the edge added last
\* at the head: neighbors_directed yields the neighbours newest edge first.
RECURSIVE NeighborsDirected(_, _, _)
NeighborsDirected(idx, outgoing, k) ==
    IF k = 0 THEN <<>>
    ELSE LET e == raw_edges[k]
             from == IF outgoing THEN e[1] ELSE e[2]
             to == IF outgoing THEN e[2] ELSE e[1]
         IN  IF from = idx
             THEN <<nodes[to].id>> \o NeighborsDirected(idx, outgoing, k - 1)
             ELSE NeighborsDirected(idx, outgoing, k - 1)

\* successors(id), predecessors(id): the neighbours' ids, in iteration order
successors(cid) == NeighborsDirected(node_indices[cid], TRUE, Len(raw_edges))

predecessors(cid) == NeighborsDirected(node_indices[cid], FALSE, Len(raw_edges))

\* connections(): one lookup in the EdgeMap per raw edge
Connections == [k \in 1..Len(raw_edges) |-> edges[raw_edges[k]]]

-----------------------------------------------------------------------------
(* try_new: create_graph *)

\* HashMap::insert: the value of an existing key is replaced
insert(map, key, value) ==
    [k \in DOMAIN map \cup {key} |-> IF k = key THEN value ELSE map[k]]

Fail(e) ==
    /\ result' = Err(e)
    /\ pc' = "done"

\* The checks of create_graph with the duplicate id looked for first
CheckComponentDuplicateFirst(c) ==
    IF c.id \in DOMAIN node_indices
    THEN invalid_graph("Duplicate component ID found: {}", <<c.id>>)
    ELSE IF is_unspecified(c.cat)
    THEN invalid_component("ComponentCategory not specified for component: {}", <<c.id>>)
    ELSE IF is_unspecified_inverter(c.cat, config)
    THEN invalid_component("InverterType not specified for inverter: {}", <<c.id>>)
    ELSE NoError

\* The three checks of the loop of create_graph, in its order
CheckComponent(c) ==
    IF is_unspecified(c.cat)
    THEN invalid_component("ComponentCategory not specified for component: {}", <<c.id>>)
    ELSE IF is_unspecified_inverter(c.cat, config)
    THEN invalid_component("InverterType not specified for inverter: {}", <<c.id>>)
    ELSE IF c.id \in DOMAIN node_indices
    THEN invalid_graph("Duplicate component ID found: {}", <<c.id>>)
    ELSE NoError

\* One iteration of the loop of create_graph
CreateGraphStep(c) ==
    /\ pc = "create_graph"
    /\ components' = Append(components, c)
    /\ IF CheckComponent(c) # NoError
       THEN /\ Fail(CheckComponent(c))
            /\ UNCHANGED <<nodes, node_indices>>
       ELSE /\ nodes' = Append(nodes, c)
            /\ node_indices' = insert(node_indices, c.id, Len(nodes) + 1)
            /\ UNCHANGED <<pc, result>>
    /\ UNCHANGED <<config, connections, raw_edges, edges, root_id, answer>>

-----------------------------------------------------------------------------
(* try_new: find_root *)

Grids == SelectSeq(nodes, LAMBDA n : is_grid(n.cat))

\* find_root taking the first Grid without counting the others
FindRootTakingFirst ==
    IF Len(Grids) = 0
    THEN [error |-> invalid_graph("No grid component found.", <<>>), root |-> 0]
    ELSE [error |-> NoError, root |-> Grids[1].id]

\* roots_iter.next() is the first Grid in insertion order; a second one is an error
find_root ==
    IF Len(Grids) = 0
    THEN [error |-> invalid_graph("No grid component found.", <<>>), root |-> 0]
    ELSE IF Len(Grids) > 1
    THEN [error |-> invalid_graph("Multiple grid components found.", <<>>), root |-> 0]
    ELSE [error |-> NoError, root |-> Grids[1].id]

\* The iterator of components is exhausted: create_graph returns Ok and
\* find_root runs
FindRoot ==
    /\ pc = "create_graph"
    /\ IF find_root.error # NoError
       THEN /\ Fail(find_root.error)
            /\ UNCHANGED root_id
       ELSE /\ root_id' = find_root.root
            /\ pc' = "add_connections"
            /\ UNCHANGED result
    /\ UNCHANGED <<config, components, connections, nodes, node_indices,
                   raw_edges, edges, answer>>

-----------------------------------------------------------------------------
(* try_new: add_connections *)

\* add_edge: a second edge for a pair already joined
AddEdge(es, pair) == Append(es, pair)

\* DiGraph::update_edge: the edge is added unless the graph already has it
update_edge(es, pair) ==
    IF pair \in Range(es) THEN es ELSE Append(es, pair)

\* The first endpoint, source first, that names no component (0: none)
MissingEndpoint(c) ==
    IF c.source \notin DOMAIN node_indices THEN c.source
    ELSE IF c.destination \notin DOMAIN node_indices THEN c.destination
    ELSE 0

\* The checks of the loop of add_connections, in its order
CheckConnection(c) ==
    IF c.source = c.destination
    THEN invalid_connection("Connection:({}, {}) Can't connect a component to itself.",
                            <<c.source, c.destination>>)
    ELSE IF MissingEndpoint(c) # 0
    THEN invalid_connection("Connection:({}, {}) Can't find a component with ID {}",
                            <<c.source, c.destination, MissingEndpoint(c)>>)
    ELSE NoError

\* One iteration of the loop of add_connections
AddConnectionsStep(c) ==
    /\ pc = "add_connections"
    /\ connections' = Append(connections, c)
    /\ IF CheckConnection(c) # NoError
       THEN /\ Fail(CheckConnection(c))
            /\ UNCHANGED <<raw_edges, edges>>
       ELSE LET pair == <<node_indices[c.source], node_indices[c.destination]>>
            IN  /\ edges' = insert(edges, pair, c)
                /\ raw_edges' = update_edge(raw_edges, pair)
                /\ UNCHANGED <<pc, result>>
    /\ UNCHANGED <<config, components, nodes, node_indices, root_id, answer>>

-----------------------------------------------------------------------------
(* validate: acyclicity and connectedness *)

\* position reporting the start of the path for any id found
PositionFromStart(seq, id) ==
    IF \E k \in 1..Len(seq) : seq[k] = id THEN 1 ELSE 0

\* The first position of id in seq (0: none)
Position(seq, id) ==
    IF \E k \in 1..Len(seq) : seq[k] = id
    THEN CHOOSE k \in 1..Len(seq) : seq[k] = id /\ \A j \in 1..(k - 1) : seq[j] # id
    ELSE 0

FirstError(results) ==
    IF \E k \in 1..Len(results) : results[k] # NoError
    THEN results[CHOOSE k \in 1..Len(results) :
                    results[k] # NoError /\ \A j \in 1..(k - 1) : results[j] = NoError]
    ELSE NoError

RECURSIVE validate_acyclicity(_, _)
RECURSIVE AcyclicitySuccessors(_, _, _)

\* The loop of validate_acyclicity over the successors from the i-th on
AcyclicitySuccessors(succs, preds, i) ==
    IF i > Len(succs) THEN NoError
    ELSE LET first_occurance == Position(preds, succs[i])
         IN  IF first_occurance # 0
             THEN invalid_graph("Cycle detected: {} -> {}",
                                SubSeq(preds, first_occurance, Len(preds)) \o <<succs[i]>>)
             ELSE LET r == validate_acyclicity(succs[i], preds)
                  IN  IF r # NoError THEN r
                      ELSE AcyclicitySuccessors(succs, preds, i + 1)

\* path is the parameter the source calls predecessors: the ids from the root
\* down to the node's parent
validate_acyclicity(node, path) ==
    AcyclicitySuccessors(successors(node), Append(path, node), 1)

\* The loop of validate_connected_graph: pop the last of the queue, then
\* insert and push every successor, visited before or not
RECURSIVE Visit(_, _)
Visit(queue, visited) ==
    IF Len(queue) = 0 THEN visited
    ELSE LET node_id == queue[Len(queue)]
             succs == successors(node_id)
         IN  Visit(SubSeq(queue, 1, Len(queue) - 1) \o succs,
                   visited \cup Range(succs))

Unvisited(root) ==
    LET visited == Visit(<<root>>, {root})
    IN  SelectSeq([k \in 1..Len(nodes) |-> nodes[k].id], LAMBDA id : id \notin visited)

validate_connected_graph(root) ==
    IF Unvisited(root) # <<>>
    THEN invalid_graph("Nodes {:?} are not connected to the root.", Unvisited(root))
    ELSE NoError

-----------------------------------------------------------------------------
(* validate: the checks of one node *)

\* ensure_leaf that never fails
LeafNotChecked(node) == NoError

ensure_leaf(node) ==
    IF Len(successors(node)) > 0
    THEN invalid_graph("{}:{} can't have any successors. Found {}:{}.",
                       <<node, successors(node)[1]>>)
    ELSE NoError

ensure_not_leaf(node) ==
    IF Len(successors(node)) = 0
    THEN invalid_graph("{}:{} must have at least one successor.", <<node>>)
    ELSE NoError

ensure_root(node) ==
    IF Len(predecessors(node)) > 0
    THEN invalid_graph("{}:{} can't have any predecessors. Found {}:{}.",
                       <<node, predecessors(node)[1]>>)
    ELSE NoError

\* A closure over a node's category is written as the set of the categories
\* it holds of.
\* The first neighbour, in iteration order, whose category is not in
\* predicate (0: none)
FirstFailing(neighbours, predicate) ==
    LET bad == SelectSeq(neighbours, LAMBDA id : category(id) \notin predicate)
    IN  IF bad = <<>> THEN 0 ELSE bad[1]

ensure_on_predecessors(node, predicate, description) ==
    IF FirstFailing(predecessors(node), predicate) # 0
    THEN invalid_graph("{}:{} can only have predecessors that are " \o description
                           \o ". Found {}:{}.",
                       <<node, FirstFailing(predecessors(node), predicate)>>)
    ELSE NoError

ensure_on_successors(node, predicate, description) ==
    IF FirstFailing(successors(node), predicate) # 0
    THEN invalid_graph("{}:{} can only have successors that are " \o description
                           \o ". Found {}:{}.",
                       <<node, FirstFailing(successors(node), predicate)>>)
    ELSE NoError

ensure_exclusive_successors(node) ==
    LET shared == SelectSeq(successors(node), LAMBDA s : Len(predecessors(s)) > 1)
    IN  IF shared # <<>>
        THEN invalid_graph("{}:{} can't have successors with multiple predecessors. Found {}:{}.",
                           <<node, shared[1]>>)
        ELSE NoError

\* |n| n.is_grid() || n.is_meter()
GridOrMeter == {cat \in Categories : is_grid(cat) \/ is_meter(cat)}

-----------------------------------------------------------------------------
(* validate: the checks of each category *)

validate_root ==
    FirstError(<<ensure_root(root_id), ensure_not_leaf(root_id),
                 ensure_exclusive_successors(root_id)>>)

MeterCheck(meter) ==
    FirstError(<<ensure_on_predecessors(meter, GridOrMeter, "the Grid or a Meter"),
                 ensure_on_successors(meter, {cat \in Categories : ~is_battery(cat)},
                                      "not Batteries")>>)

\* for node in components().filter(is_meter) { ..? }
validate_meters ==
    FirstError([k \in 1..Len(nodes) |->
                  IF is_meter(nodes[k].cat) THEN MeterCheck(nodes[k].id) ELSE NoError])

InverterTypeCheck(inverter) ==
    CASE category(inverter) = "BatteryInverter" ->
           FirstError(<<ensure_not_leaf(inverter),
                        ensure_on_successors(inverter, {cat \in Categories : is_battery(cat)},
                                             "Batteries")>>)
      [] category(inverter) = "SolarInverter" -> ensure_leaf(inverter)
      [] category(inverter) = "HybridInverter" ->
           ensure_on_successors(inverter, {cat \in Categories : is_battery(cat)},
                                             "Batteries")
      [] category(inverter) = "UnspecifiedInverter" ->
           IF ~config.allow_unspecified_inverters
           THEN invalid_graph("Inverter {} has an unspecified inverter type.", <<inverter>>)
           ELSE NoError

InverterCheck(inverter) ==
    FirstError(<<ensure_on_predecessors(inverter, GridOrMeter, "the Grid or a Meter"),
                 InverterTypeCheck(inverter)>>)

\* for node in components().filter(is_inverter) { ..? }
validate_inverters ==
    FirstError([k \in 1..Len(nodes) |->
                  IF is_inverter(nodes[k].cat) THEN InverterCheck(nodes[k].id) ELSE NoError])

BatteryCheck(battery) ==
    FirstError(<<ensure_leaf(battery),
                 ensure_on_predecessors(battery,
                     {cat \in Categories :
                         is_battery_inverter(cat, config) \/ is_hybrid_inverter(cat)},
                     "BatteryInverters or HybridInverters")>>)

\* for node in components().filter(is_battery) { ..? }
validate_batteries ==
    FirstError([k \in 1..Len(nodes) |->
                  IF is_battery(nodes[k].cat) THEN BatteryCheck(nodes[k].id) ELSE NoError])

EvChargerCheck(ev_charger) ==
    FirstError(<<ensure_leaf(ev_charger),
                 ensure_on_predecessors(ev_charger, GridOrMeter, "the Grid or a Meter")>>)

\* for node in components().filter(is_ev_charger) { ..? }
validate_ev_chargers ==
    FirstError([k \in 1..Len(nodes) |->
                  IF is_ev_charger(nodes[k].cat) THEN EvChargerCheck(nodes[k].id)
                  ELSE NoError])

ChpCheck(chp) ==
    FirstError(<<ensure_leaf(chp),
                 ensure_on_predecessors(chp, GridOrMeter, "the Grid or a Meter")>>)

\* for node in components().filter(is_chp) { ..? }
validate_chps ==
    FirstError([k \in 1..Len(nodes) |->
                  IF is_chp(nodes[k].cat) THEN ChpCheck(nodes[k].id) ELSE NoError])

-----------------------------------------------------------------------------
(* validate *)

CategoryResults ==
    <<validate_root, validate_meters, validate_inverters, validate_batteries,
      validate_ev_chargers, validate_chps>>

\* The for loop of validate from its k-th result on; acc is <<errors, validation_failed>>
RECURSIVE Collect(_, _, _)
Collect(results, k, acc) ==
    IF k > Len(results) THEN acc
    ELSE IF results[k] # NoError
    THEN Collect(results, k + 1,
                 <<Append(acc[1], results[k]), ~config.allow_component_validation_failures>>)
    ELSE Collect(results, k + 1, acc)

\* The combined error reduced to its first line
MultipleFirstOnly(errors) == errors[1]

Multiple(errors) ==
    [kind |-> "InvalidGraph", msg |-> "Multiple validation failures:", ids |-> <<>>,
     lines |-> errors]

validate ==
    IF root_id \notin DOMAIN node_indices
    THEN Err(Error("Internal", "Grid component not found with detected component ID: {}.",
                   <<root_id>>))
    ELSE IF validate_acyclicity(root_id, <<>>) # NoError
    THEN Err(validate_acyclicity(root_id, <<>>))
    ELSE LET connected == validate_connected_graph(root_id)
             start == IF connected # NoError
                      THEN <<(<<connected>>), ~config.allow_unconnected_components>>
                      ELSE <<(<<>>), FALSE>>
             acc == Collect(CategoryResults, 1, start)
             errors == acc[1]
             validation_failed == acc[2]
         IN  IF Len(errors) = 0 THEN Ok
             ELSE IF Len(errors) = 1
             THEN (IF validation_failed THEN Err(errors[1]) ELSE Ok)
             ELSE (IF validation_failed THEN Err(Multiple(errors)) ELSE Ok)

\* The iterator of connections is exhausted: add_connections returns Ok and
\* validate runs
Validate ==
    /\ pc = "add_connections"
    /\ result' = validate
    /\ pc' = "done"
    /\ UNCHANGED <<config, components, connections, nodes, node_indices,
                   raw_edges, edges, root_id, answer>>

-----------------------------------------------------------------------------
(* Meter roles, asked of the accepted graph *)

\* Iterator::all over the successors from the k-th on; acc is
\* <<has_successors, the result so far>>: all stops at the first FALSE
RECURSIVE AllSuccessors(_, _, _, _)
AllSuccessors(succs, predicate, k, acc) ==
    IF k > Len(succs) \/ ~acc[2] THEN acc
    ELSE AllSuccessors(succs, predicate, k + 1,
                       <<TRUE, category(succs[k]) \in predicate>>)

\* is_meter() && successors.all(|n| { has_successors = true; predicate(n) })
\*            && has_successors
MeterRole(component_id, predicate) ==
    /\ is_meter(category(component_id))
    /\ AllSuccessors(successors(component_id), predicate, 1, <<FALSE, TRUE>>)[2]
    /\ AllSuccessors(successors(component_id), predicate, 1, <<FALSE, TRUE>>)[1]

is_pv_meter(component_id) ==
    MeterRole(component_id, {cat \in Categories : is_pv_inverter(cat)})

is_battery_meter(component_id) ==
    MeterRole(component_id, {cat \in Categories : is_battery_inverter(cat, config)})

is_ev_charger_meter(component_id) ==
    MeterRole(component_id, {cat \in Categories : is_ev_charger(cat)})

is_chp_meter(component_id) ==
    MeterRole(component_id, {cat \in Categories : is_chp(cat)})

Accepted == pc = "done" /\ result.status = "Ok"

Ask(op, id, value) ==
    /\ Accepted
    /\ answer' = [op |-> op, id |-> id, value |-> value]
    /\ UNCHANGED <<pc, config, components, connections, nodes, node_indices,
                   raw_edges, edges, root_id, result>>

IsPvMeter(id) == Ask("is_pv_meter", id, is_pv_meter(id))

IsBatteryMeter(id) == Ask("is_battery_meter", id, is_battery_meter(id))

IsEvChargerMeter(id) == Ask("is_ev_charger_meter", id, is_ev_charger_meter(id))

IsChpMeter(id) == Ask("is_chp_meter", id, is_chp_meter(id))

-----------------------------------------------------------------------------
(* Formula expressions *)

\* enum Expr: value is the f64 of a Number (whole numbers only) or the
\* component_id of a Component; params holds the parameters, one for a Neg
Expr(op, value, params) == [op |-> op, value |-> value, params |-> params]

Component(component_id) == Expr("Component", component_id, <<>>)

RECURSIVE add(_, _)
RECURSIVE sub(_, _)
RECURSIVE neg(_)

\* A variant of add that keeps a sum on the right as one parameter
AddNestingRight(lhs, rhs) ==
    IF lhs.op = "Neg" /\ rhs.op = "Neg"
    THEN neg(add(lhs.params[1], rhs.params[1]))
    ELSE IF rhs.op = "Neg" THEN sub(lhs, rhs.params[1])
    ELSE IF lhs.op = "Neg" THEN sub(rhs, lhs.params[1])
    ELSE IF lhs.op = "Add" THEN Expr("Add", 0, Append(lhs.params, rhs))
    ELSE Expr("Add", 0, <<lhs, rhs>>)

\* impl Add for Expr
add(lhs, rhs) ==
    IF lhs.op = "Neg" /\ rhs.op = "Neg"
    THEN neg(add(lhs.params[1], rhs.params[1]))
    ELSE IF rhs.op = "Neg" THEN sub(lhs, rhs.params[1])
    ELSE IF lhs.op = "Neg" THEN sub(rhs, lhs.params[1])
    ELSE IF lhs.op = "Add" /\ rhs.op = "Add"
    THEN Expr("Add", 0, lhs.params \o rhs.params)
    ELSE IF lhs.op = "Add" THEN Expr("Add", 0, Append(lhs.params, rhs))
    ELSE IF rhs.op = "Add" THEN Expr("Add", 0, <<lhs>> \o rhs.params)
    ELSE Expr("Add", 0, <<lhs, rhs>>)

\* impl Sub for Expr
sub(lhs, rhs) ==
    IF lhs.op = "Sub" /\ rhs.op = "Neg" THEN add(lhs, rhs.params[1])
    ELSE IF lhs.op = "Neg" /\ rhs.op = "Sub" THEN sub(neg(rhs), lhs.params[1])
    ELSE IF lhs.op = "Sub" THEN Expr("Sub", 0, Append(lhs.params, rhs))
    ELSE IF lhs.op = "Neg" /\ rhs.op = "Neg"
    THEN Expr("Sub", 0, <<rhs.params[1], lhs.params[1]>>)
    ELSE IF lhs.op = "Neg" THEN neg(add(lhs.params[1], rhs))
    ELSE IF rhs.op = "Neg" THEN add(lhs, rhs.params[1])
    ELSE Expr("Sub", 0, <<lhs, rhs>>)

\* impl Neg for Expr
neg(e) ==
    IF e.op = "Neg" THEN e.params[1]
    ELSE IF e.op = "Sub" THEN sub(Expr("Add", 0, Tail(e.params)), e.params[1])
    ELSE Expr("Neg", 0, <<e>>)

\* Iterator::reduce(|a, b| a + b) over a non-empty vector
RECURSIVE reduce(_)
reduce(exprs) ==
    IF Len(exprs) = 1 THEN exprs[1]
    ELSE add(reduce(SubSeq(exprs, 1, Len(exprs) - 1)), exprs[Len(exprs)])

RECURSIVE generate_string(_, _)
RECURSIVE JoinFrom(_, _, _, _)

\* The loop of join_params from the k-th parameter on; bracket_components is
\* "First", "Rest", "All" or "None"
JoinFrom(params, separator, bracket_components, k) ==
    IF k > Len(params) THEN ""
    ELSE (IF k > 1 THEN separator ELSE "")
         \o generate_string(params[k],
                \/ bracket_components = "First" /\ k = 1
                \/ bracket_components = "Rest" /\ k > 1
                \/ bracket_components = "All")
         \o JoinFrom(params, separator, bracket_components, k + 1)

\* prefix is <<>> for None and <<name>> for Some(name)
join_params(params, separator, prefix, bracket_components, bracket_whole) ==
    LET start == IF prefix # <<>> THEN prefix[1] \o "(" ELSE ""
        suffix == IF prefix # <<>> THEN ")" ELSE ""
        joined == start \o JoinFrom(params, separator, bracket_components, 1)
    IN  IF bracket_whole /\ Len(params) > 1
        THEN "(" \o joined \o suffix \o ")"
        ELSE joined \o suffix

\* A whole number is printed with one decimal place
generate_string(e, bracket_whole) ==
    IF e.op = "Neg" THEN "-" \o generate_string(e.params[1], TRUE)
    ELSE IF e.op = "Number" THEN ToString(e.value) \o ".0"
    ELSE IF e.op = "Component" THEN "#" \o ToString(e.value)
    ELSE IF e.op = "Add"
    THEN join_params(e.params, " + ", <<>>, "None", bracket_whole)
    ELSE IF e.op = "Sub"
    THEN join_params(e.params, " - ", <<>>, "Rest", bracket_whole)
    ELSE IF e.op = "Coalesce"
    THEN join_params(e.params, ", ", <<"COALESCE">>, "None", FALSE)
    ELSE IF e.op = "Min"
    THEN join_params(e.params, ", ", <<"MIN">>, "None", FALSE)
    ELSE join_params(e.params, ", ", <<"MAX">>, "None", FALSE)

\* Display for Expr
to_string(e) == generate_string(e, FALSE)

-----------------------------------------------------------------------------
(* Traversal used by the formulas *)

\* BTreeSet::pop_first / iteration: the smallest id first
first(ids) == CHOOSE x \in ids : \A y \in ids : x <= y

RECURSIVE Ascending(_)
Ascending(ids) ==
    IF ids = {} THEN <<>> ELSE <<first(ids)>> \o Ascending(ids \ {first(ids)})

RECURSIVE Flatten(_)
Flatten(iters) ==
    IF iters = <<>> THEN <<>> ELSE Head(iters) \o Flatten(Tail(iters))

\* Siblings::next, run to the end: skips the component itself and the ids
\* already yielded
RECURSIVE Siblings(_, _, _)
Siblings(component_id, iter, visited) ==
    IF iter = <<>> THEN <<>>
    ELSE IF Head(iter) = component_id \/ Head(iter) \in visited
    THEN Siblings(component_id, Tail(iter), visited)
    ELSE <<Head(iter)>>
         \o Siblings(component_id, Tail(iter), visited \cup {Head(iter)})

siblings_from_predecessors(component_id) ==
    Siblings(component_id,
             Flatten([k \in 1..Len(predecessors(component_id)) |->
                         successors(predecessors(component_id)[k])]),
             {})

siblings_from_successors(component_id) ==
    Siblings(component_id,
             Flatten([k \in 1..Len(successors(component_id)) |->
                         predecessors(successors(component_id)[k])]),
             {})

\* The loop of find_all: the stack is popped at its end; matching is the set
\* of ids of the nodes that satisfy pred
RECURSIVE FindAllLoop(_, _, _, _)
FindAllLoop(stack, found, matching, follow_after_match) ==
    IF stack = <<>> THEN found
    ELSE LET id == stack[Len(stack)]
             rest == SubSeq(stack, 1, Len(stack) - 1)
         IN  IF id \in matching /\ ~follow_after_match
             THEN FindAllLoop(rest, found \cup {id}, matching, follow_after_match)
             ELSE FindAllLoop(rest \o successors(id),
                              IF id \in matching THEN found \cup {id} ELSE found,
                              matching, follow_after_match)

\* A variant of find_all that always searches below a match
FindAllBelowMatches(from, matching, follow_after_match) ==
    IF from \notin DOMAIN node_indices
    THEN [error |-> Error("ComponentNotFound",
                          "Component with id {} not found.", <<from>>),
          found |-> {}]
    ELSE [error |-> NoError, found |-> FindAllLoop(<<from>>, {}, matching, TRUE)]

\* find_all: error and found are the Err or the Ok of the Result
find_all(from, matching, follow_after_match) ==
    IF from \notin DOMAIN node_indices
    THEN [error |-> Error("ComponentNotFound",
                          "Component with id {} not found.", <<from>>),
          found |-> {}]
    ELSE [error |-> NoError,
          found |-> FindAllLoop(<<from>>, {}, matching, follow_after_match)]

has_successors(component_id) == successors(component_id) # <<>>

has_meter_successors(component_id) ==
    \E k \in 1..Len(successors(component_id)) :
        is_meter(category(successors(component_id)[k]))

is_component_meter(component_id) ==
    \/ is_pv_meter(component_id)
    \/ is_battery_meter(component_id)
    \/ is_ev_charger_meter(component_id)
    \/ is_chp_meter(component_id)

-----------------------------------------------------------------------------
(* Fallback expressions *)

\* A variant of meter_fallback that always puts the meter last
MeterFallbackMeterLast(component_id, prefer_meters) ==
    IF /\ is_meter(category(component_id))
       /\ has_successors(component_id)
       /\ ~has_meter_successors(component_id)
    THEN IF \A k \in 1..Len(successors(component_id)) :
                component(successors(component_id)[k]).supported
         THEN <<Expr("Coalesce", 0,
                     <<reduce([k \in 1..Len(successors(component_id)) |->
                                  Component(successors(component_id)[k])]),
                       Component(component_id)>>)>>
         ELSE <<Component(component_id)>>
    ELSE <<>>

\* A variant of meter_fallback that resolves a meter only when meters are
\* preferred
MeterFallbackWhenPreferred(component_id, prefer_meters) ==
    IF /\ prefer_meters
       /\ is_meter(category(component_id))
       /\ has_successors(component_id)
       /\ ~has_meter_successors(component_id)
    THEN IF \A k \in 1..Len(successors(component_id)) :
                component(successors(component_id)[k]).supported
         THEN <<Expr("Coalesce", 0,
                     <<Component(component_id),
                       reduce([k \in 1..Len(successors(component_id)) |->
                                  Component(successors(component_id)[k])])>>)>>
         ELSE <<Component(component_id)>>
    ELSE <<>>

\* meter_fallback: <<>> for None, <<expr>> for Some(expr)
meter_fallback(component_id, prefer_meters) ==
    IF /\ is_meter(category(component_id))
       /\ has_successors(component_id)
       /\ ~has_meter_successors(component_id)
    THEN IF \A k \in 1..Len(successors(component_id)) :
                component(successors(component_id)[k]).supported
         THEN LET exprs ==
                      <<reduce([k \in 1..Len(successors(component_id)) |->
                                   Component(successors(component_id)[k])]),
                        Component(component_id)>>
              IN  <<Expr("Coalesce", 0,
                         IF prefer_meters THEN <<exprs[2], exprs[1]>> ELSE exprs)>>
         ELSE <<Component(component_id)>>
    ELSE <<>>

RECURSIVE fallback_for_each(_, _)
RECURSIVE component_fallback(_, _, _)

\* A variant of component_fallback that does not look for the siblings in
\* the work set
ComponentFallbackOfAnySiblings(component_ids, component_id, prefer_meters) ==
    IF /\ \/ is_battery_inverter(category(component_id), config)
          \/ is_chp(category(component_id))
          \/ is_pv_inverter(category(component_id))
          \/ is_ev_charger(category(component_id))
       /\ \A k \in 1..Len(predecessors(component_id)) :
              is_component_meter(predecessors(component_id)[k])
    THEN [some |-> TRUE,
          exprs |-> fallback_for_each(Range(predecessors(component_id)),
                                      prefer_meters),
          component_ids |->
              component_ids \ Range(siblings_from_predecessors(component_id))]
    ELSE [some |-> FALSE, exprs |-> <<>>, component_ids |-> component_ids]

\* A variant of component_fallback that leaves the siblings in the work set
ComponentFallbackKeepingSiblings(component_ids, component_id, prefer_meters) ==
    IF /\ \/ is_battery_inverter(category(component_id), config)
          \/ is_chp(category(component_id))
          \/ is_pv_inverter(category(component_id))
          \/ is_ev_charger(category(component_id))
       /\ Range(siblings_from_predecessors(component_id)) \subseteq component_ids
       /\ \A k \in 1..Len(predecessors(component_id)) :
              is_component_meter(predecessors(component_id)[k])
    THEN [some |-> TRUE,
          exprs |-> fallback_for_each(Range(predecessors(component_id)),
                                      prefer_meters),
          component_ids |-> component_ids]
    ELSE IF \/ is_battery_inverter(category(component_id), config)
            \/ is_chp(category(component_id))
            \/ is_pv_inverter(category(component_id))
            \/ is_ev_charger(category(component_id))
    THEN IF Range(siblings_from_predecessors(component_id)) \subseteq component_ids
         THEN [some |-> FALSE, exprs |-> <<>>, component_ids |-> component_ids]
         ELSE [some |-> TRUE, exprs |-> <<Component(component_id)>>,
               component_ids |-> component_ids]
    ELSE [some |-> FALSE, exprs |-> <<>>, component_ids |-> component_ids]

\* component_fallback: some tells Some from None, exprs is the vector
\* returned and component_ids the work set as the call leaves it
component_fallback(component_ids, component_id, prefer_meters) ==
    LET cat == category(component_id)
        siblings == siblings_from_predecessors(component_id)
        preds == predecessors(component_id)
        none == [some |-> FALSE, exprs |-> <<>>, component_ids |-> component_ids]
    IN  IF \/ is_battery_inverter(cat, config)
           \/ is_chp(cat)
           \/ is_pv_inverter(cat)
           \/ is_ev_charger(cat)
        THEN IF ~(\A k \in 1..Len(siblings) : siblings[k] \in component_ids)
             THEN [some |-> TRUE, exprs |-> <<Component(component_id)>>,
                   component_ids |-> component_ids]
             ELSE IF \A k \in 1..Len(preds) : is_component_meter(preds[k])
             THEN [some |-> TRUE,
                   exprs |-> fallback_for_each(Range(preds), prefer_meters),
                   component_ids |-> component_ids \ Range(siblings)]
             ELSE none
        ELSE none

fallback_for_each(component_ids, prefer_meters) ==
    IF component_ids = {} THEN <<>>
    ELSE LET component_id == first(component_ids)
             rest == component_ids \ {component_id}
             formula == meter_fallback(component_id, prefer_meters)
             formulas == component_fallback(rest, component_id, prefer_meters)
         IN  IF formula # <<>>
             THEN formula \o fallback_for_each(rest, prefer_meters)
             ELSE IF formulas.some
             THEN formulas.exprs
                  \o fallback_for_each(formulas.component_ids, prefer_meters)
             ELSE <<Component(component_id)>>
                  \o fallback_for_each(rest, prefer_meters)

\* fallback_expr and generate: the ids are collected into a BTreeSet, and the
\* Result<Expr, Error> is the error and the expression
fallback_expr(component_ids, prefer_meters) ==
    LET exprs == fallback_for_each(component_ids, prefer_meters)
    IN  IF exprs = <<>>
        THEN [error |-> Error("Internal", "Search for fallback components failed.",
                              <<>>),
              expr |-> Expr("Number", 0, <<>>)]
        ELSE [error |-> NoError, expr |-> reduce(exprs)]

-----------------------------------------------------------------------------
(* Formula generators.  A Result<String, Error> is the error and the text. *)

OkFormula(text) == [error |-> NoError, formula |-> text]

ErrFormula(e) == [error |-> e, formula |-> ""]

\* A variant of the loop of GridFormulaBuilder::build that stops after the
\* first successor
GridLoopFirstOnly(succs, k, expr) ==
    IF succs = <<>> THEN OkFormula("0.0")
    ELSE OkFormula(to_string(fallback_expr({succs[1]}, TRUE).expr))

\* The loop of GridFormulaBuilder::build from the k-th successor on, and what
\* follows it; expr is <<>> for None and <<e>> for Some(e)
RECURSIVE GridLoop(_, _, _)
GridLoop(succs, k, expr) ==
    IF k > Len(succs)
    THEN (IF expr = <<>> THEN OkFormula("0.0") ELSE OkFormula(to_string(expr[1])))
    ELSE LET comp == fallback_expr({succs[k]}, TRUE)
         IN  IF comp.error # NoError THEN ErrFormula(comp.error)
             ELSE GridLoop(succs, k + 1,
                           IF expr = <<>> THEN <<comp.expr>>
                           ELSE <<add(comp.expr, expr[1])>>)

grid_formula == GridLoop(successors(root_id), 1, <<>>)

\* A variant of min_zero that does not clamp
MinZeroUnclamped(expr) == expr

min_zero(expr) == Expr("Min", 0, <<Expr("Number", 0, <<>>), expr>>)

\* The loop of ProducerFormulaBuilder::build from the k-th id on, and what
\* follows it
RECURSIVE ProducerLoop(_, _, _)
ProducerLoop(ids, k, expr) ==
    IF k > Len(ids)
    THEN (IF expr = <<>> THEN OkFormula("0.0") ELSE OkFormula(to_string(expr[1])))
    ELSE LET comp == fallback_expr({ids[k]}, FALSE)
         IN  IF comp.error # NoError THEN ErrFormula(comp.error)
             ELSE ProducerLoop(ids, k + 1,
                               IF expr = <<>> THEN <<min_zero(comp.expr)>>
                               ELSE <<add(expr[1], min_zero(comp.expr))>>)

producer_formula ==
    ProducerLoop(
        Ascending(find_all(root_id,
                           {id \in ComponentIds :
                               \/ is_pv_meter(id)
                               \/ is_chp_meter(id)
                               \/ is_pv_inverter(category(id))
                               \/ is_chp(category(id))},
                           FALSE).found),
        1, <<>>)

max_zero(expr) == Expr("Max", 0, <<Expr("Number", 0, <<>>), expr>>)

\* for sibling in siblings_from_successors: expr = expr + sibling
RECURSIVE AddSiblings(_, _, _)
AddSiblings(expr, siblings, k) ==
    IF k > Len(siblings) THEN expr
    ELSE AddSiblings(add(expr, Component(siblings[k])), siblings, k + 1)

\* A variant of SubtractSuccessors that subtracts every successor as it is
SubtractSuccessorsPlain(expr, succs, k) ==
    IF succs = <<>> THEN expr
    ELSE Expr("Sub", 0, <<expr>> \o [i \in 1..Len(succs) |-> Component(succs[i])])

\* for successor in successors: expr = expr - successor_expr; fallback_expr
\* of one meter returns no error
RECURSIVE SubtractSuccessors(_, _, _)
SubtractSuccessors(expr, succs, k) ==
    IF k > Len(succs) THEN expr
    ELSE LET successor_expr ==
                 IF is_meter(category(succs[k]))
                 THEN fallback_expr({succs[k]}, TRUE).expr
                 ELSE Component(succs[k])
         IN  SubtractSuccessors(sub(expr, successor_expr), succs, k + 1)

\* component_consumption: the expression returned
component_consumption(component_id) ==
    IF is_meter(category(component_id))
    THEN LET siblings == siblings_from_successors(component_id)
             successors_map ==
                 Range(successors(component_id))
                     \cup UNION {Range(successors(s)) : s \in Range(siblings)}
             expr == max_zero(SubtractSuccessors(
                         AddSiblings(Component(component_id), siblings, 1),
                         Ascending(successors_map), 1))
         IN  IF has_successors(component_id) /\ ~has_meter_successors(component_id)
             THEN Expr("Coalesce", 0, <<expr, Expr("Number", 0, <<>>)>>)
             ELSE expr
    ELSE max_zero(Component(component_id))

\* The while loop of ConsumerFormulaBuilder::build: the meters popped from
\* unvisited_meters, in the order they are popped; component_consumption
\* removes the meter and its siblings
RECURSIVE PoppedMeters(_)
PoppedMeters(unvisited_meters) ==
    IF unvisited_meters = {} THEN <<>>
    ELSE <<first(unvisited_meters)>>
         \o PoppedMeters(
                (unvisited_meters \ {first(unvisited_meters)})
                    \ Range(siblings_from_successors(first(unvisited_meters))))

\* all_meters, with unvisited_meters as try_new sets it: <<>> for None
AllMeters ==
    LET meters ==
            PoppedMeters(find_all(root_id,
                                  {id \in ComponentIds : is_meter(category(id))},
                                  TRUE).found)
    IN  IF meters = <<>> THEN <<>>
        ELSE <<reduce([k \in 1..Len(meters) |-> component_consumption(meters[k])])>>

\* A variant of OtherGridSuccessors that keeps the battery inverters
OtherGridSuccessorsWithBatteryInverters ==
    SelectSeq(successors(root_id), LAMBDA s : ~is_meter(category(s)))

\* The successors of the root that are no meter and no battery inverter
OtherGridSuccessors ==
    SelectSeq(successors(root_id),
              LAMBDA s : /\ ~is_meter(category(s))
                         /\ ~is_battery_inverter(category(s), config))

\* build: the match on (all_meters, other_grid_successors)
ConsumerSum(all_meters, other_grid_successors) ==
    IF all_meters # <<>> /\ other_grid_successors # <<>>
    THEN OkFormula(to_string(add(all_meters[1], other_grid_successors[1])))
    ELSE IF other_grid_successors # <<>>
    THEN OkFormula(to_string(other_grid_successors[1]))
    ELSE IF all_meters # <<>> THEN OkFormula(to_string(all_meters[1]))
    ELSE OkFormula("0.0")

consumer_formula ==
    ConsumerSum(AllMeters,
                IF OtherGridSuccessors = <<>> THEN <<>>
                ELSE <<reduce([k \in 1..Len(OtherGridSuccessors) |->
                                  component_consumption(OtherGridSuccessors[k])])>>)

\* A variant of CheckCategory that reports an id of another category as an
\* id that is not found
CheckCategoryAsNotFound(ids, k, expected, description) ==
    IF \E i \in 1..Len(ids) :
          ids[i] \notin DOMAIN node_indices \/ category(ids[i]) \notin expected
    THEN Error("ComponentNotFound", "Component with id {} not found.", <<>>)
    ELSE NoError

\* The loop of the build of a category formula over the ids from the k-th on:
\* the first id that is unknown or of another category is the error
RECURSIVE CheckCategory(_, _, _, _)
CheckCategory(ids, k, expected, description) ==
    IF k > Len(ids) THEN NoError
    ELSE IF ids[k] \notin DOMAIN node_indices
    THEN Error("ComponentNotFound", "Component with id {} not found.", <<ids[k]>>)
    ELSE IF category(ids[k]) \notin expected
    THEN invalid_component(description, <<ids[k]>>)
    ELSE CheckCategory(ids, k + 1, expected, description)

\* build of the PV, CHP and EV charger formulas
CategoryFormula(ids, expected, description) ==
    IF ids = {} THEN OkFormula("0.0")
    ELSE IF CheckCategory(Ascending(ids), 1, expected, description) # NoError
    THEN ErrFormula(CheckCategory(Ascending(ids), 1, expected, description))
    ELSE LET expr == fallback_expr(ids, FALSE)
         IN  IF expr.error # NoError THEN ErrFormula(expr.error)
             ELSE OkFormula(to_string(expr.expr))

\* An Option<BTreeSet<u64>> is <<>> for None and <<ids>> for Some(ids)
pv_formula(pv_inverter_ids) ==
    CategoryFormula(
        IF pv_inverter_ids # <<>> THEN pv_inverter_ids[1]
        ELSE find_all(root_id,
                      {id \in ComponentIds : is_pv_inverter(category(id))}, FALSE).found,
        {cat \in Categories : is_pv_inverter(cat)},
        "Component with id {} is not a PV inverter.")

chp_formula(chp_ids) ==
    CategoryFormula(
        IF chp_ids # <<>> THEN chp_ids[1]
        ELSE find_all(root_id, {id \in ComponentIds : is_chp(category(id))}, FALSE).found,
        {cat \in Categories : is_chp(cat)},
        "Component with id {} is not a CHP.")

ev_charger_formula(ev_charger_ids) ==
    CategoryFormula(
        IF ev_charger_ids # <<>> THEN ev_charger_ids[1]
        ELSE find_all(root_id,
                      {id \in ComponentIds : is_ev_charger(category(id))}, FALSE).found,
        {cat \in Categories : is_ev_charger(cat)},
        "Component with id {} is not an EV charger.")

\* The loop of find_inverter_ids over battery_ids from the k-th on; the
\* Result<BTreeSet<u64>, Error> is the error and the ids
RECURSIVE FindInverterIdsLoop(_, _, _)
FindInverterIdsLoop(battery_ids, k, inverter_ids) ==
    IF k > Len(battery_ids) THEN [error |-> NoError, ids |-> inverter_ids]
    ELSE LET battery_id == battery_ids[k]
             siblings == siblings_from_predecessors(battery_id)
         IN  IF battery_id \notin DOMAIN node_indices
             THEN [error |-> Error("ComponentNotFound",
                                     "Component with id {} not found.",
                                     <<battery_id>>),
                   ids |-> {}]
             ELSE IF ~is_battery(category(battery_id))
             THEN [error |-> invalid_component("Component with id {} is not a battery.",
                                                <<battery_id>>),
                   ids |-> {}]
             ELSE IF \E i \in 1..Len(siblings) : siblings[i] \notin Range(battery_ids)
             THEN [error |-> invalid_component(
                       "Battery {} can't be in a formula without all its siblings: {:?}.",
                       <<battery_id>> \o siblings),
                   ids |-> {}]
             ELSE FindInverterIdsLoop(battery_ids, k + 1,
                      inverter_ids \cup Range(predecessors(battery_id)))

\* A variant of find_inverter_ids that starts from the largest id
FindInverterIdsFromLargest(battery_ids) ==
    LET ids == Ascending(battery_ids)
    IN  FindInverterIdsLoop([k \in 1..Len(ids) |-> ids[Len(ids) + 1 - k]], 1, {})

find_inverter_ids(battery_ids) == FindInverterIdsLoop(Ascending(battery_ids), 1, {})

\* A variant of battery_formula that sums every inverter above a battery
BatteryFormulaOfAnyInverter(battery_ids) ==
    LET ids == {id \in ComponentIds :
                   \E b \in Range(successors(id)) : is_battery(category(b))}
    IN  IF ids = {} THEN OkFormula("0.0")
        ELSE OkFormula(to_string(fallback_expr(ids, FALSE).expr))

\* BatteryFormulaBuilder::try_new and build
battery_formula(battery_ids) ==
    LET inverter_ids ==
            IF battery_ids # <<>> THEN find_inverter_ids(battery_ids[1])
            ELSE [error |-> NoError,
                  ids |-> find_all(root_id,
                                   {id \in ComponentIds :
                                       is_battery_inverter(category(id), config)},
                                   FALSE).found]
    IN  IF inverter_ids.error # NoError THEN ErrFormula(inverter_ids.error)
        ELSE IF inverter_ids.ids = {} THEN OkFormula("0.0")
        ELSE LET expr == fallback_expr(inverter_ids.ids, FALSE)
             IN  IF expr.error # NoError THEN ErrFormula(expr.error)
                 ELSE OkFormula(to_string(expr.expr))

-----------------------------------------------------------------------------
(* Specifications *)

InitWith(configs) ==
    /\ pc = "create_graph"
    /\ config \in configs
    /\ components = <<>>
    /\ connections = <<>>
    /\ nodes = <<>>
    /\ node_indices = <<>>
    /\ raw_edges = <<>>
    /\ edges = <<>>
    /\ root_id = 0
    /\ result = Pending
    /\ answer = [op |-> "none", id |-> 0, value |-> FALSE]

\* Any input: ids in any order, repeated or unknown, unspecified categories,
\* self-loops, repeated connections with different values
AnyComponents ==
    [id : 1..MaxId, cat : {"Unspecified", "Grid", "Meter", "UnspecifiedInverter"}]

AnyConnections ==
    [source : 1..(MaxId + 1), destination : 1..(MaxId + 1), tag : {"a", "b"}]

Init == InitWith(Configs)

Next ==
    \/ \E c \in AnyComponents : Len(components) < MaxComponents /\ CreateGraphStep(c)
    \/ FindRoot
    \/ \E c \in AnyConnections : Len(connections) < MaxConnections /\ AddConnectionsStep(c)
    \/ Validate

Spec == Init /\ [][Next]_vars

\* Well-formed input: the k-th component has id k, and a connection joins two
\* different components
NextId == Len(components) + 1

KnownConnections ==
    {c \in [source : ComponentIds, destination : ComponentIds, tag : {"a"}] :
        c.source # c.destination}

\* Every category, under the default configuration
NextDefault ==
    \/ \E c \in [id : {NextId}, cat : Categories \ {"Unspecified"}] :
          Len(components) < MaxComponents /\ CreateGraphStep(c)
    \/ FindRoot
    \/ \E c \in KnownConnections : Len(connections) < MaxConnections /\ AddConnectionsStep(c)
    \/ Validate

SpecDefault == InitWith({DefaultConfig}) /\ [][NextDefault]_vars

\* Every category, with unspecified inverters allowed
SpecUnspecified ==
    InitWith({[DefaultConfig EXCEPT !.allow_unspecified_inverters = TRUE]})
        /\ [][NextDefault]_vars

\* Larger graphs of few categories, under every configuration
NextTopology ==
    \/ \E c \in [id : {NextId}, cat : {"Grid", "Meter", "CHP"}] :
          Len(components) < MaxTopologyComponents /\ CreateGraphStep(c)
    \/ FindRoot
    \/ \E c \in KnownConnections : Len(connections) < MaxConnections /\ AddConnectionsStep(c)
    \/ Validate

SpecTopology == InitWith(Configs) /\ [][NextTopology]_vars

\* A Grid, a Meter, then components of every category; the meter roles of the
\* accepted graph are asked
RoleCategories ==
    IF NextId = 1 THEN {"Grid"}
    ELSE IF NextId = 2 THEN {"Meter"}
    ELSE Categories \ {"Unspecified", "Grid"}

NextRoles ==
    \/ \E c \in [id : {NextId}, cat : RoleCategories] :
          Len(components) < MaxTopologyComponents /\ CreateGraphStep(c)
    \/ FindRoot
    \/ \E c \in KnownConnections : Len(connections) < MaxConnections /\ AddConnectionsStep(c)
    \/ Validate
    \/ \E id \in ComponentIds : IsPvMeter(id)
    \/ \E id \in ComponentIds : IsBatteryMeter(id)
    \/ \E id \in ComponentIds : IsEvChargerMeter(id)
    \/ \E id \in ComponentIds : IsChpMeter(id)

SpecRoles ==
    InitWith({DefaultConfig, [DefaultConfig EXCEPT !.allow_unspecified_inverters = TRUE]})
        /\ [][NextRoles]_vars

\* A Grid, then meters, producers and battery inverters, all of them
\* supported, connected from a component to one created after it, with and
\* without validation failures allowed; one formula of the site is asked of
\* each accepted graph
NextSite ==
    \/ \E c \in [id : {NextId},
                 cat : IF NextId = 1 THEN {"Grid"}
                       ELSE {"Meter", "SolarInverter", "BatteryInverter", "CHP"},
                 supported : {TRUE}] :
          Len(components) < MaxFormulaComponents /\ CreateGraphStep(c)
    \/ FindRoot
    \/ \E c \in {k \in KnownConnections : k.source < k.destination} :
          Len(connections) < MaxConnections /\ AddConnectionsStep(c)
    \/ Validate
    \/ answer.op = "none" /\ Ask("grid_formula", <<>>, grid_formula)
    \/ answer.op = "none" /\ Ask("producer_formula", <<>>, producer_formula)
    \/ answer.op = "none" /\ Ask("consumer_formula", <<>>, consumer_formula)

SpecSite ==
    InitWith({DefaultConfig,
              [DefaultConfig EXCEPT !.allow_component_validation_failures = TRUE]})
        /\ [][NextSite]_vars


\* Connections that lead from a component to one created after it, supplied
\* in ascending order of source and destination
OrderedConnections ==
    {c \in [source : ComponentIds, destination : ComponentIds, tag : {"a"}] :
        /\ c.source < c.destination
        /\ \A k \in 1..Len(connections) :
              \/ connections[k].source < c.source
              \/ /\ connections[k].source = c.source
                 /\ connections[k].destination < c.destination}

\* Larger graphs of a Grid, meters and CHPs, with and without validation
\* failures allowed; the consumer formula is asked
NextConsumer ==
    \/ \E c \in [id : {NextId},
                 cat : IF NextId = 1 THEN {"Grid"}
                       ELSE {"Meter", "CHP"},
                 supported : {TRUE}] :
          Len(components) < MaxConsumerComponents /\ CreateGraphStep(c)
    \/ FindRoot
    \/ \E c \in OrderedConnections :
          Len(connections) < MaxConsumerConnections /\ AddConnectionsStep(c)
    \/ Validate
    \/ answer.op = "none" /\ Ask("consumer_formula", <<>>, consumer_formula)

SpecConsumer ==
    InitWith({DefaultConfig,
              [DefaultConfig EXCEPT !.allow_component_validation_failures = TRUE]})
        /\ [][NextConsumer]_vars


\* None, or Some of at most two ids, 0 being the id of no component
QueryIds ==
    {<<>>} \cup {<<ids>> : ids \in {s \in SUBSET (0..MaxFormulaComponents) :
                                       Cardinality(s) <= 2}}

\* A Grid, then components of the categories the formulas tell apart, all of
\* them supported, connected from a component to one created after it; one
\* category formula is asked of each accepted graph
NextFormulas ==
    \/ \E c \in [id : {NextId},
                 cat : IF NextId = 1 THEN {"Grid"}
                       ELSE {"Meter", "BatteryInverter", "SolarInverter",
                             "HybridInverter", "Battery", "CHP", "EVCharger"},
                 supported : {TRUE}] :
          Len(components) < MaxFormulaComponents /\ CreateGraphStep(c)
    \/ FindRoot
    \/ \E c \in {k \in KnownConnections : k.source < k.destination} :
          Len(connections) < MaxConnections /\ AddConnectionsStep(c)
    \/ Validate
    \/ \E ids \in QueryIds :
          answer.op = "none" /\ Ask("pv_formula", ids, pv_formula(ids))
    \/ \E ids \in QueryIds :
          answer.op = "none" /\ Ask("battery_formula", ids, battery_formula(ids))
    \/ \E ids \in QueryIds :
          answer.op = "none" /\ Ask("chp_formula", ids, chp_formula(ids))
    \/ \E ids \in QueryIds :
          answer.op = "none" /\ Ask("ev_charger_formula", ids, ev_charger_formula(ids))

SpecFormulas == InitWith({DefaultConfig}) /\ [][NextFormulas]_vars


\* A Grid, then meters, battery and hybrid inverters and batteries, connected
\* in ascending order; the battery formula is asked of each accepted graph
\* for None and for at most two ids, 0 being the id of no component
NextBattery ==
    \/ \E c \in [id : {NextId},
                 cat : IF NextId = 1 THEN {"Grid"}
                       ELSE {"Meter", "BatteryInverter", "HybridInverter", "Battery"},
                 supported : {TRUE}] :
          Len(components) < MaxBatteryComponents /\ CreateGraphStep(c)
    \/ FindRoot
    \/ \E c \in OrderedConnections :
          Len(connections) < MaxBatteryConnections /\ AddConnectionsStep(c)
    \/ Validate
    \/ \E ids \in {<<>>} \cup {<<s>> : s \in {s \in SUBSET (0..MaxBatteryComponents) :
                                                Cardinality(s) <= 2}} :
          answer.op = "none" /\ Ask("battery_formula", ids, battery_formula(ids))

SpecBattery == InitWith({DefaultConfig}) /\ [][NextBattery]_vars


\* A Grid, then meters, solar inverters and CHPs, the latter two supported or
\* not, connected from a component to one created after it; fallback_expr is
\* asked of each accepted graph for a set of its components, with and without
\* prefer_meters
NextFallback ==
    \/ \E c \in [id : {NextId}, cat : {"Grid", "Meter"}, supported : {TRUE}]
              \cup [id : {NextId}, cat : {"SolarInverter", "CHP"}, supported : BOOLEAN] :
          /\ Len(components) < MaxFormulaComponents
          /\ (c.cat = "Grid") <=> (NextId = 1)
          /\ CreateGraphStep(c)
    \/ FindRoot
    \/ \E c \in {k \in KnownConnections : k.source < k.destination} :
          Len(connections) < MaxConnections /\ AddConnectionsStep(c)
    \/ Validate
    \/ \E ids \in SUBSET ComponentIds \ {{}}, prefer_meters \in BOOLEAN :
          /\ answer.op = "none"
          /\ Ask("fallback_expr", <<ids, prefer_meters>>,
                 fallback_expr(ids, prefer_meters))

SpecFallback == InitWith({DefaultConfig}) /\ [][NextFallback]_vars


\* A Grid and meters, connected from a component to one created after it;
\* find_all is asked of each accepted graph, from a component or from the id
\* 0 of no component, for a predicate given as the set of the ids it holds of
NextSearch ==
    \/ \E c \in [id : {NextId},
                 cat : IF NextId = 1 THEN {"Grid"} ELSE {"Meter"},
                 supported : {TRUE}] :
          Len(components) < MaxSearchComponents /\ CreateGraphStep(c)
    \/ FindRoot
    \/ \E c \in OrderedConnections :
          Len(connections) < MaxSearchConnections /\ AddConnectionsStep(c)
    \/ Validate
    \/ \E from \in 0..MaxSearchComponents, matching \in SUBSET ComponentIds,
          follow_after_match \in BOOLEAN :
          /\ answer.op = "none"
          /\ Ask("find_all", <<from, matching, follow_after_match>>,
                 find_all(from, matching, follow_after_match))

SpecSearch == InitWith({DefaultConfig}) /\ [][NextSearch]_vars

\* An expression as it is written with the operators: a component leaf, or
\* an operator and the expressions it is applied to
Written(op, value, args) == [op |-> op, value |-> value, args |-> args]

\* The expressions written with at most depth nested operators over the
\* components 1..MaxLeafId, each with the Expr the operators build for it
RECURSIVE Operands(_)
Operands(depth) ==
    IF depth = 0
    THEN {[written |-> Written("component", k, <<>>), expr |-> Component(k)] :
             k \in 1..MaxLeafId}
    ELSE LET below == Operands(depth - 1)
         IN  below
             \cup {[written |-> Written("neg", 0, <<a.written>>),
                    expr |-> neg(a.expr)] : a \in below}
             \cup {[written |-> Written("add", 0, <<a.written, b.written>>),
                    expr |-> add(a.expr, b.expr)] : a, b \in below}
             \cup {[written |-> Written("sub", 0, <<a.written, b.written>>),
                    expr |-> sub(a.expr, b.expr)] : a, b \in below}

RECURSIVE Depth(_)
Depth(written) ==
    IF written.args = <<>> THEN 0
    ELSE IF Len(written.args) = 1 THEN 1 + Depth(written.args[1])
    ELSE IF Depth(written.args[1]) >= Depth(written.args[2])
    THEN 1 + Depth(written.args[1])
    ELSE 1 + Depth(written.args[2])

\* The number of component leaves of an expression as written
RECURSIVE Leaves(_)
Leaves(written) ==
    IF written.args = <<>> THEN 1
    ELSE IF Len(written.args) = 1 THEN Leaves(written.args[1])
    ELSE Leaves(written.args[1]) + Leaves(written.args[2])

\* Expr::component of one of the components; no graph is built
InitExpr ==
    /\ pc = "expr"
    /\ config = DefaultConfig
    /\ components = <<>>
    /\ connections = <<>>
    /\ nodes = <<>>
    /\ node_indices = <<>>
    /\ raw_edges = <<>>
    /\ edges = <<>>
    /\ root_id = 0
    /\ result = Pending
    /\ \E a \in Operands(0) :
          answer = [op |-> "component", id |-> a.written, value |-> a.expr]

\* One operator applied: id is the expression as written, value the Expr
Apply(op, args, expr) ==
    /\ pc = "expr"
    /\ Depth(Written(op, 0, args)) <= MaxExprDepth
    /\ Leaves(Written(op, 0, args)) <= MaxExprLeaves
    /\ answer' = [op |-> op, id |-> Written(op, 0, args), value |-> expr]
    /\ UNCHANGED <<pc, config, components, connections, nodes, node_indices,
                   raw_edges, edges, root_id, result>>

\* The expression built so far is negated, or added to or subtracted from
\* an operand, on either side
NextExpr ==
    \/ Apply("neg", <<answer.id>>, neg(answer.value))
    \/ \E b \in Operands(MaxOperandDepth) :
          Apply("add", <<answer.id, b.written>>, add(answer.value, b.expr))
    \/ \E b \in Operands(MaxOperandDepth) :
          Apply("add", <<b.written, answer.id>>, add(b.expr, answer.value))
    \/ \E b \in Operands(MaxOperandDepth) :
          Apply("sub", <<answer.id, b.written>>, sub(answer.value, b.expr))
    \/ \E b \in Operands(MaxOperandDepth) :
          Apply("sub", <<b.written, answer.id>>, sub(b.expr, answer.value))

SpecExpr == InitExpr /\ [][NextExpr]_vars

\* A Grid, then meters, solar inverters and CHPs, all of them supported,
\* connected from a component to one created after it, under every
\* configuration; one formula is asked of each accepted graph
NextConfigured ==
    \/ \E c \in [id : {NextId},
                 cat : IF NextId = 1 THEN {"Grid"}
                       ELSE {"Meter", "SolarInverter", "CHP"},
                 supported : {TRUE}] :
          Len(components) < MaxFormulaComponents /\ CreateGraphStep(c)
    \/ FindRoot
    \/ \E c \in OrderedConnections :
          Len(connections) < MaxConnections /\ AddConnectionsStep(c)
    \/ Validate
    \/ answer.op = "none" /\ Ask("grid_formula", <<>>, grid_formula)
    \/ answer.op = "none" /\ Ask("producer_formula", <<>>, producer_formula)
    \/ answer.op = "none" /\ Ask("consumer_formula", <<>>, consumer_formula)
    \/ \E ids \in QueryIds :
          answer.op = "none" /\ Ask("pv_formula", ids, pv_formula(ids))
    \/ \E ids \in QueryIds :
          answer.op = "none" /\ Ask("chp_formula", ids, chp_formula(ids))

SpecConfigured == InitWith(Configs) /\ [][NextConfigured]_vars

-----------------------------------------------------------------------------
(* The loops and the recursion of validate, find_all and fallback_expr, one
   iteration a step.  While a call runs, pc names it, answer.id holds its
   arguments and answer.value its local variables; when it returns, pc is
   "done" again and answer.value holds what it returned. *)

Idle == [op |-> "none", id |-> <<>>, value |-> <<>>]

\* The configurations without allow_unspecified_inverters, which no check of
\* a Grid, a Meter or a SolarInverter reads
StepConfigs == {c \in Configs : ~c.allow_unspecified_inverters}

InitSteps ==
    /\ pc = "create_graph"
    /\ config \in StepConfigs
    /\ components = <<>>
    /\ connections = <<>>
    /\ nodes = <<>>
    /\ node_indices = <<>>
    /\ raw_edges = <<>>
    /\ edges = <<>>
    /\ root_id = 0
    /\ result = Pending
    /\ answer = Idle

\* validate is called: validate_acyclicity(root, vec![]) is entered
ValidateCall ==
    /\ pc = "add_connections"
    /\ root_id \in DOMAIN node_indices
    /\ pc' = "validate_acyclicity"
    /\ answer' = [op |-> "validate_acyclicity", id |-> <<root_id>>,
                  value |-> <<[node |-> root_id, predecessors |-> <<root_id>>, k |-> 1]>>]
    /\ UNCHANGED <<config, components, connections, nodes, node_indices,
                   raw_edges, edges, root_id, result>>

\* One iteration of the loop of the innermost call of validate_acyclicity:
\* answer.value is the stack of calls, each with its node, its predecessors
\* after the push and the position of its loop
AcyclicityStep ==
    /\ pc = "validate_acyclicity"
    /\ LET stack == answer.value
           frame == stack[Len(stack)]
           succs == successors(frame.node)
           callers == SubSeq(stack, 1, Len(stack) - 1)
       IN  IF frame.k > Len(succs)
           THEN IF callers = <<>>
                THEN /\ pc' = "validate_connected_graph"
                     /\ answer' = [op |-> "validate_connected_graph",
                                   id |-> <<root_id>>,
                                   value |-> <<[queue |-> <<root_id>>,
                                                visited |-> {root_id}]>>]
                     /\ UNCHANGED result
                ELSE /\ answer' = [answer EXCEPT !.value = callers]
                     /\ UNCHANGED <<pc, result>>
           ELSE LET successor == succs[frame.k]
                    first_occurance == Position(frame.predecessors, successor)
                IN  IF first_occurance # 0
                    THEN /\ result' = Err(invalid_graph(
                                "Cycle detected: {} -> {}",
                                SubSeq(frame.predecessors, first_occurance,
                                       Len(frame.predecessors)) \o <<successor>>))
                         /\ pc' = "done"
                         /\ answer' = Idle
                    ELSE /\ answer' =
                              [answer EXCEPT !.value =
                                  Append(callers, [frame EXCEPT !.k = frame.k + 1])
                                  \o <<[node |-> successor,
                                        predecessors |->
                                            Append(frame.predecessors, successor),
                                        k |-> 1]>>]
                         /\ UNCHANGED <<pc, result>>
    /\ UNCHANGED <<config, components, connections, nodes, node_indices,
                   raw_edges, edges, root_id>>

\* One iteration of the while loop of validate_connected_graph; when the
\* queue is empty the rest of validate runs, which has no loop of its own
\* but those over the nodes and their neighbours
ConnectedStep ==
    /\ pc = "validate_connected_graph"
    /\ LET queue == answer.value[1].queue
           visited == answer.value[1].visited
       IN  IF queue = <<>>
           THEN /\ result' = validate
                /\ pc' = "done"
                /\ answer' = Idle
           ELSE LET node_id == queue[Len(queue)]
                    succs == successors(node_id)
                IN  /\ answer' =
                          [answer EXCEPT !.value =
                              <<[queue |-> SubSeq(queue, 1, Len(queue) - 1) \o succs,
                                 visited |-> visited \cup Range(succs)]>>]
                    /\ UNCHANGED <<pc, result>>
    /\ UNCHANGED <<config, components, connections, nodes, node_indices,
                   raw_edges, edges, root_id>>

\* find_all is called from the root, as every formula builder calls it
FindAllCall(matching, follow_after_match) ==
    /\ Accepted
    /\ answer.op = "none"
    /\ pc' = "find_all"
    /\ answer' = [op |-> "find_all_loop",
                  id |-> <<root_id, matching, follow_after_match>>,
                  value |-> <<[stack |-> <<root_id>>, found |-> {}]>>]
    /\ UNCHANGED <<config, components, connections, nodes, node_indices,
                   raw_edges, edges, root_id, result>>

\* One iteration of the while loop of find_all
FindAllStep ==
    /\ pc = "find_all"
    /\ LET stack == answer.value[1].stack
           found == answer.value[1].found
           matching == answer.id[2]
           follow_after_match == answer.id[3]
       IN  IF stack = <<>>
           THEN /\ pc' = "done"
                /\ answer' = [op |-> "find_all", id |-> answer.id,
                              value |-> <<[error |-> NoError, found |-> found]>>]
           ELSE LET id == stack[Len(stack)]
                    rest == SubSeq(stack, 1, Len(stack) - 1)
                IN  /\ answer' =
                          [answer EXCEPT !.value =
                              IF id \in matching /\ ~follow_after_match
                              THEN <<[stack |-> rest, found |-> found \cup {id}]>>
                              ELSE <<[stack |-> rest \o successors(id),
                                      found |-> IF id \in matching
                                                THEN found \cup {id} ELSE found]>>]
                    /\ UNCHANGED pc
    /\ UNCHANGED <<config, components, connections, nodes, node_indices,
                   raw_edges, edges, root_id, result>>

\* fallback_expr is called: generate enters fallback_for_each
FallbackCall(component_ids, prefer_meters) ==
    /\ Accepted
    /\ answer.op = "none"
    /\ pc' = "fallback_for_each"
    /\ answer' = [op |-> "fallback_for_each",
                  id |-> <<component_ids, prefer_meters>>,
                  value |-> <<[component_ids |-> component_ids, exprs |-> <<>>]>>]
    /\ UNCHANGED <<config, components, connections, nodes, node_indices,
                   raw_edges, edges, root_id, result>>

\* One iteration of the while loop of the innermost call of
\* fallback_for_each: answer.value is the stack of calls, each with its work
\* set and the expressions it has collected.  component_fallback enters a new
\* call with the predecessors; a call that returns hands its expressions to
\* its caller, and the outermost one to generate.
FallbackStep ==
    /\ pc = "fallback_for_each"
    /\ LET stack == answer.value
           frame == stack[Len(stack)]
           callers == SubSeq(stack, 1, Len(stack) - 1)
           prefer_meters == answer.id[2]
       IN  IF frame.component_ids = {}
           THEN IF callers = <<>>
                THEN /\ pc' = "done"
                     /\ answer' =
                          [op |-> "fallback_expr", id |-> answer.id,
                           value |->
                               IF frame.exprs = <<>>
                               THEN <<[error |-> Error("Internal",
                                          "Search for fallback components failed.",
                                          <<>>),
                                       expr |-> Expr("Number", 0, <<>>)]>>
                               ELSE <<[error |-> NoError,
                                       expr |-> reduce(frame.exprs)]>>]
                ELSE LET caller == callers[Len(callers)]
                     IN  /\ answer' =
                               [answer EXCEPT !.value =
                                   Append(SubSeq(callers, 1, Len(callers) - 1),
                                          [caller EXCEPT
                                              !.exprs = caller.exprs \o frame.exprs])]
                         /\ UNCHANGED pc
           ELSE LET component_id == first(frame.component_ids)
                    rest == frame.component_ids \ {component_id}
                    formula == meter_fallback(component_id, prefer_meters)
                    cat == category(component_id)
                    siblings == siblings_from_predecessors(component_id)
                    preds == predecessors(component_id)
                    pushing(exprs) ==
                        Append(callers, [component_ids |-> rest,
                                         exprs |-> frame.exprs \o exprs])
                IN  /\ answer' =
                          [answer EXCEPT !.value =
                              IF formula # <<>> THEN pushing(formula)
                              ELSE IF ~(\/ is_battery_inverter(cat, config)
                                        \/ is_chp(cat)
                                        \/ is_pv_inverter(cat)
                                        \/ is_ev_charger(cat))
                              THEN pushing(<<Component(component_id)>>)
                              ELSE IF ~(\A k \in 1..Len(siblings) : siblings[k] \in rest)
                              THEN pushing(<<Component(component_id)>>)
                              ELSE IF \A k \in 1..Len(preds) : is_component_meter(preds[k])
                              THEN Append(callers,
                                          [component_ids |-> rest \ Range(siblings),
                                           exprs |-> frame.exprs])
                                   \o <<[component_ids |-> Range(preds),
                                         exprs |-> <<>>]>>
                              ELSE pushing(<<Component(component_id)>>)]
                    /\ UNCHANGED pc
    /\ UNCHANGED <<config, components, connections, nodes, node_indices,
                   raw_edges, edges, root_id, result>>

\* Connections in either direction, supplied in ascending order of source
\* and destination
AscendingConnections ==
    {c \in KnownConnections :
        \A k \in 1..Len(connections) :
            \/ connections[k].source < c.source
            \/ /\ connections[k].source = c.source
               /\ connections[k].destination < c.destination}

\* A Grid, meters and solar inverters, connected in any direction, so that
\* cycles through the root, below it and apart from it occur; every loop runs
\* step by step.  find_all is called as ConsumerFormulaBuilder::try_new and
\* PVFormulaBuilder::try_new call it.
NextSteps ==
    \/ \E c \in [id : {NextId},
                 cat : IF NextId = 1 THEN {"Grid"} ELSE {"Meter", "SolarInverter"},
                 supported : {TRUE}] :
          Len(components) < MaxStepComponents /\ CreateGraphStep(c)
    \/ FindRoot
    \/ \E c \in AscendingConnections :
          Len(connections) < MaxStepConnections /\ AddConnectionsStep(c)
    \/ ValidateCall
    \/ AcyclicityStep
    \/ ConnectedStep
    \/ FindAllCall({id \in ComponentIds : is_meter(category(id))}, TRUE)
    \/ FindAllCall({id \in ComponentIds : is_pv_inverter(category(id))}, FALSE)
    \/ FindAllStep
    \/ \E ids \in SUBSET ComponentIds, prefer_meters \in BOOLEAN :
          ids # {} /\ FallbackCall(ids, prefer_meters)
    \/ FallbackStep

SpecSteps == InitSteps /\ [][NextSteps]_vars

\* A call that has been entered runs on: each loop takes its next iteration
SpecStepsFair ==
    /\ SpecSteps
    /\ WF_vars(AcyclicityStep)
    /\ WF_vars(ConnectedStep)
    /\ WF_vars(FindAllStep)
    /\ WF_vars(FallbackStep)

-----------------------------------------------------------------------------
(* The input, read as the caller sees it *)

GridPositions == {k \in 1..Len(components) : components[k].cat = "Grid"}

\* The k-th supplied component is one create_graph refuses
BadComponent(k) ==
    \/ components[k].cat = "Unspecified"
    \/ components[k].cat = "UnspecifiedInverter" /\ ~config.allow_unspecified_inverters
    \/ \E j \in 1..(k - 1) : components[j].id = components[k].id

SuppliedIds == {components[k].id : k \in 1..Len(components)}

\* The k-th supplied connection is one add_connections refuses
BadConnection(k) ==
    \/ connections[k].source = connections[k].destination
    \/ connections[k].source \notin SuppliedIds
    \/ connections[k].destination \notin SuppliedIds

\* create_graph has returned Ok
ComponentsInserted ==
    /\ pc # "create_graph"
    /\ \A k \in 1..Len(components) : ~BadComponent(k)

\* create_graph, find_root and add_connections have returned Ok: validate has run
ValidationRan ==
    /\ pc = "done"
    /\ \A k \in 1..Len(components) : ~BadComponent(k)
    /\ Cardinality(GridPositions) = 1
    /\ \A k \in 1..Len(connections) : ~BadConnection(k)

-----------------------------------------------------------------------------
(* C1: try_new returns Ok only if exactly one supplied component is a Grid,  *)
(* and root_id is then that component's id; with every component inserted,   *)
(* no Grid gives InvalidGraph "No grid component found." and two or more     *)
(* give InvalidGraph "Multiple grid components found."                       *)
C1_UniqueGridIsRoot ==
    /\ result.status = "Ok" =>
          /\ Cardinality(GridPositions) = 1
          /\ \A k \in GridPositions : root_id = components[k].id
    /\ ComponentsInserted /\ Cardinality(GridPositions) = 0 =>
          result = Err(invalid_graph("No grid component found.", <<>>))
    /\ ComponentsInserted /\ Cardinality(GridPositions) >= 2 =>
          result = Err(invalid_graph("Multiple grid components found.", <<>>))

\* An accepted graph whose Grid was not supplied first
C1_Witness ==
    /\ result.status = "Ok"
    /\ Len(components) >= 2
    /\ components[1].cat # "Grid"
    /\ root_id = components[2].id

-----------------------------------------------------------------------------
\* The error create_graph returns for the k-th supplied component, if refused
ComponentErrorOf(k) ==
    IF components[k].cat = "Unspecified"
    THEN invalid_component("ComponentCategory not specified for component: {}",
                           <<components[k].id>>)
    ELSE IF components[k].cat = "UnspecifiedInverter" /\ ~config.allow_unspecified_inverters
    THEN invalid_component("InverterType not specified for inverter: {}",
                           <<components[k].id>>)
    ELSE invalid_graph("Duplicate component ID found: {}", <<components[k].id>>)

\* The error add_connections returns for the k-th supplied connection, if refused
ConnectionErrorOf(k) ==
    IF connections[k].source = connections[k].destination
    THEN invalid_connection("Connection:({}, {}) Can't connect a component to itself.",
                            <<connections[k].source, connections[k].destination>>)
    ELSE invalid_connection("Connection:({}, {}) Can't find a component with ID {}",
                            <<connections[k].source, connections[k].destination,
                              IF connections[k].source \notin SuppliedIds
                              THEN connections[k].source
                              ELSE connections[k].destination>>)

(* C5: try_new returns the error of the first check that fails, in the      *)
(* order: per component (Unspecified, then unspecified inverter, then        *)
(* duplicate id), root identification, per connection (self-loop, then       *)
(* unknown endpoint), validation.  So a refused component ends the call at   *)
(* that component, a connection error implies a unique Grid, and a result of *)
(* validation implies that no connection was refused.                        *)
C5_FirstFailingCheck ==
    /\ \A k \in 1..Len(components) :
          BadComponent(k) =>
             /\ k = Len(components)
             /\ connections = <<>>
             /\ result = Err(ComponentErrorOf(k))
    /\ ComponentsInserted /\ Cardinality(GridPositions) # 1 =>
          /\ connections = <<>>
          /\ result.status = "Err"
          /\ result.error.msg \in {"No grid component found.",
                                   "Multiple grid components found."}
    /\ \A k \in 1..Len(connections) :
          BadConnection(k) =>
             /\ k = Len(connections)
             /\ result = Err(ConnectionErrorOf(k))
    /\ result.error.kind = "InvalidConnection" =>
          /\ Cardinality(GridPositions) = 1
          /\ \A k \in 1..Len(components) : ~BadComponent(k)
    /\ pc = "done" /\ ~ValidationRan => result.status = "Err"
    /\ ValidationRan => result = validate

\* A self-loop on an id that names no component, after a good connection
C5_Witness ==
    /\ Len(connections) = 2
    /\ connections[2].source = connections[2].destination
    /\ connections[2].source \notin SuppliedIds
    /\ result.error.kind = "InvalidConnection"

-----------------------------------------------------------------------------
SuppliedPairs ==
    {<<connections[k].source, connections[k].destination>> : k \in 1..Len(connections)}

LastSupplied(pair) ==
    connections[CHOOSE k \in 1..Len(connections) :
                   /\ <<connections[k].source, connections[k].destination>> = pair
                   /\ \A j \in (k + 1)..Len(connections) :
                         <<connections[j].source, connections[j].destination>> # pair]

Occurrences(seq, x) == Cardinality({k \in 1..Len(seq) : seq[k] = x})

(* C6: when the same ordered (source, destination) pair is supplied several  *)
(* times, the accepted graph holds one edge for it: connections() yields one *)
(* value per distinct pair, the one supplied last, and successors(source)    *)
(* and predecessors(destination) hold the other endpoint exactly once.       *)
C6_OneEdgePerPair ==
    result.status = "Ok" =>
       /\ Len(Connections) = Cardinality(SuppliedPairs)
       /\ \A pair \in SuppliedPairs :
             /\ Occurrences(Connections, LastSupplied(pair)) = 1
             /\ \A k \in 1..Len(Connections) :
                   <<Connections[k].source, Connections[k].destination>> = pair
                      => Connections[k] = LastSupplied(pair)
             /\ Occurrences(successors(pair[1]), pair[2]) = 1
             /\ Occurrences(predecessors(pair[2]), pair[1]) = 1

\* An accepted graph whose input repeats a pair with another value
C6_Witness ==
    /\ result.status = "Ok"
    /\ \E j, k \in 1..Len(connections) :
          /\ j < k
          /\ connections[j].source = connections[k].source
          /\ connections[j].destination = connections[k].destination
          /\ connections[j].tag # connections[k].tag

-----------------------------------------------------------------------------
(* The accepted graph, read through successors() *)

RECURSIVE Closure(_, _)
Closure(frontier, seen) ==
    LET next == UNION {Range(successors(n)) : n \in frontier} \ seen
    IN  IF next = {} THEN seen ELSE Closure(next, seen \cup next)

\* The ids reached from cid by one or more steps along successors
TransitiveSuccessors(cid) == Closure({cid}, {})

OnCycle(cid) == cid \in TransitiveSuccessors(cid)

ReachableFromRoot == {root_id} \cup TransitiveSuccessors(root_id)

(* C2: in every graph try_new accepts, under every configuration, no        *)
(* component id is in its own transitive successors closure: there is no     *)
(* directed cycle, reachable from the root or not.                           *)
C2_NoCycleAnywhere ==
    result.status = "Ok" => \A cid \in ComponentIds : ~OnCycle(cid)

-----------------------------------------------------------------------------
(* C3: with allow_unconnected_components false, every component of a graph  *)
(* try_new accepts is reachable from the root along successors, whatever     *)
(* allow_component_validation_failures is and whatever per-category          *)
(* failures there are.                                                       *)
C3_ConnectedUnlessAllowed ==
    result.status = "Ok" /\ ~config.allow_unconnected_components =>
       ComponentIds \subseteq ReachableFromRoot

-----------------------------------------------------------------------------
\* ids is n1, .., nk, n1: a cycle of the supplied connections, n1..nk distinct
IsCycleOfInput(ids) ==
    /\ Len(ids) >= 3
    /\ ids[1] = ids[Len(ids)]
    /\ \A i, j \in 1..(Len(ids) - 1) : i # j => ids[i] # ids[j]
    /\ \A i \in 1..(Len(ids) - 1) : <<ids[i], ids[i + 1]>> \in SuppliedPairs

(* C4: when components, root and connections were all inserted and a        *)
(* directed cycle is reachable from the root, try_new returns, under every   *)
(* configuration, the InvalidGraph error "Cycle detected: n1 -> .. -> nk ->  *)
(* n1" with n1..nk pairwise distinct and every consecutive pair a supplied   *)
(* connection; the error is not wrapped and lists no other failure.          *)
C4_ReachableCycleIsFatal ==
    ValidationRan /\ (\E cid \in ReachableFromRoot : OnCycle(cid)) =>
       /\ result.status = "Err"
       /\ result.error.kind = "InvalidGraph"
       /\ result.error.msg = "Cycle detected: {} -> {}"
       /\ result.error.lines = <<>>
       /\ IsCycleOfInput(result.error.ids)

\* A cycle below the root, with a component that is not connected to the
\* root and the per-category failures downgraded
C4_Witness ==
    /\ ValidationRan
    /\ \E cid \in ReachableFromRoot : OnCycle(cid)
    /\ ~OnCycle(root_id)
    /\ ~(ComponentIds \subseteq ReachableFromRoot)
    /\ config.allow_component_validation_failures
    /\ result.error.msg = "Cycle detected: {} -> {}"

-----------------------------------------------------------------------------
(* The neighbour-category rules, read off the accepted graph *)

PredecessorCategories(cid) == {category(p) : p \in Range(predecessors(cid))}

SuccessorCategories(cid) == {category(x) : x \in Range(successors(cid))}

\* An Inverter(Unspecified) counts as a Battery inverter when it is allowed
CountsAsBatteryInverter(cat) ==
    \/ cat = "BatteryInverter"
    \/ cat = "UnspecifiedInverter" /\ config.allow_unspecified_inverters

Rules ==
    {"grid: no predecessor", "grid: a successor", "grid: exclusive successors",
     "meter: predecessors", "meter: no battery successor",
     "inverter, ev charger, chp: predecessors",
     "battery inverter: a successor", "battery, hybrid inverter: battery successors",
     "solar inverter, battery, ev charger, chp: leaf", "battery: predecessors"}

Violates(cid, rule) ==
    LET cat == category(cid)
        P == PredecessorCategories(cid)
        S == SuccessorCategories(cid)
    IN  CASE rule = "grid: no predecessor" -> cat = "Grid" /\ P # {}
          [] rule = "grid: a successor" -> cat = "Grid" /\ S = {}
          [] rule = "grid: exclusive successors" ->
               cat = "Grid" /\ \E x \in Range(successors(cid)) :
                                  Cardinality(Range(predecessors(x))) # 1
          [] rule = "meter: predecessors" ->
               cat = "Meter" /\ ~(P \subseteq {"Grid", "Meter"})
          [] rule = "meter: no battery successor" -> cat = "Meter" /\ "Battery" \in S
          [] rule = "inverter, ev charger, chp: predecessors" ->
               /\ cat \in {"UnspecifiedInverter", "SolarInverter", "BatteryInverter",
                           "HybridInverter", "EVCharger", "CHP"}
               /\ ~(P \subseteq {"Grid", "Meter"})
          [] rule = "battery inverter: a successor" ->
               CountsAsBatteryInverter(cat) /\ S = {}
          [] rule = "battery, hybrid inverter: battery successors" ->
               /\ CountsAsBatteryInverter(cat) \/ cat = "HybridInverter"
               /\ ~(S \subseteq {"Battery"})
          [] rule = "solar inverter, battery, ev charger, chp: leaf" ->
               cat \in {"SolarInverter", "Battery", "EVCharger", "CHP"} /\ S # {}
          [] rule = "battery: predecessors" ->
               /\ cat = "Battery"
               /\ \E c \in P : ~(CountsAsBatteryInverter(c) \/ c = "HybridInverter")

Violations == {v \in ComponentIds \X Rules : Violates(v[1], v[2])}

(* C7: under the default configuration every graph try_new accepts keeps    *)
(* every neighbour-category rule: the Grid has no predecessor, has a         *)
(* successor, and each of its successors has exactly one predecessor; a      *)
(* Meter has only Grid or Meter predecessors and no Battery successor; an    *)
(* inverter, EV charger or CHP has only Grid or Meter predecessors; a        *)
(* Battery inverter has a successor; Battery and Hybrid inverters have only  *)
(* Battery successors; a Solar inverter, Battery, EV charger or CHP has no   *)
(* successor; a Battery has only Battery- or Hybrid-inverter predecessors.   *)
C7_AcceptedKeepsNeighbourRules ==
    result.status = "Ok" /\ config = DefaultConfig => Violations = {}

\* An accepted graph with a Battery under a Battery inverter
C7_Witness ==
    /\ result.status = "Ok"
    /\ config = DefaultConfig
    /\ \E cid \in ComponentIds :
          category(cid) = "Battery" /\ PredecessorCategories(cid) = {"BatteryInverter"}

-----------------------------------------------------------------------------
(* C8: with allow_unspecified_inverters = true and the other flags default, *)
(* an Inverter(Unspecified) is validated as an Inverter(Battery): try_new,   *)
(* once the insertions passed, accepts exactly the acyclic connected graphs  *)
(* that keep every neighbour-category rule with such an inverter counted as  *)
(* a Battery inverter (it has a successor, only Battery successors, and may  *)
(* be the predecessor of a Battery).                                         *)
C8_UnspecifiedValidatedAsBattery ==
    ValidationRan /\ config.allow_unspecified_inverters =>
       (result.status = "Ok" <=>
           /\ Violations = {}
           /\ ComponentIds \subseteq ReachableFromRoot
           /\ \A cid \in ComponentIds : ~OnCycle(cid))

-----------------------------------------------------------------------------
\* The category validators that fail, in the order validate runs them
FailingValidators == SelectSeq(CategoryResults, LAMBDA e : e # NoError)

AcyclicAndConnected ==
    /\ ValidationRan
    /\ ComponentIds \subseteq ReachableFromRoot
    /\ \A cid \in ComponentIds : ~OnCycle(cid)

(* C9 as stated: for an acyclic, connected input under the default          *)
(* configuration, two or more violated neighbour invariants give one         *)
(* InvalidGraph error "Multiple validation failures:" with one line for      *)
(* every violated invariant, and exactly one violated invariant gives that   *)
(* invariant's own error, unwrapped.                                         *)
C9_OneLinePerViolation ==
    AcyclicAndConnected /\ config = DefaultConfig =>
       /\ Cardinality(Violations) >= 2 =>
             /\ result.status = "Err"
             /\ result.error.kind = "InvalidGraph"
             /\ result.error.msg = "Multiple validation failures:"
             /\ Len(result.error.lines) = Cardinality(Violations)
       /\ Cardinality(Violations) = 1 =>
             /\ result.status = "Err"
             /\ result.error.kind = "InvalidGraph"
             /\ result.error.msg # "Multiple validation failures:"
             /\ result.error.lines = <<>>

(* C9 amended: for an acyclic, connected input under the default            *)
(* configuration, the error carries one line for every category validator    *)
(* that fails (root, meters, inverters, batteries, EV chargers, CHPs, in     *)
(* this order), the line being the error that validator returned: two or     *)
(* more failing validators give "Multiple validation failures:" with these   *)
(* lines, exactly one gives its error unwrapped, none gives Ok.              *)
C9_OneLinePerFailingValidator ==
    AcyclicAndConnected /\ config = DefaultConfig =>
       /\ Len(FailingValidators) >= 2 =>
             /\ result.status = "Err"
             /\ result.error.kind = "InvalidGraph"
             /\ result.error.msg = "Multiple validation failures:"
             /\ result.error.lines = FailingValidators
       /\ Len(FailingValidators) = 1 => result = Err(FailingValidators[1])
       /\ Len(FailingValidators) = 0 => result = Ok

\* A CHP under the Grid and under another CHP: validate_root fails on the
\* shared successor and validate_chps on the CHP that is no leaf
C9_Witness ==
    /\ AcyclicAndConnected
    /\ config = DefaultConfig
    /\ FailingValidators = <<validate_root, validate_chps>>
    /\ validate_chps.msg = "{}:{} can't have any successors. Found {}:{}."
    /\ result.error.msg = "Multiple validation failures:"
    /\ Len(result.error.lines) = 2

-----------------------------------------------------------------------------
RoleQueries == {"is_pv_meter", "is_battery_meter", "is_ev_charger_meter", "is_chp_meter"}

\* The category of successor each role asks for
RoleCategory(op, cat) ==
    CASE op = "is_pv_meter" -> cat = "SolarInverter"
      [] op = "is_battery_meter" -> CountsAsBatteryInverter(cat)
      [] op = "is_ev_charger_meter" -> cat = "EVCharger"
      [] op = "is_chp_meter" -> cat = "CHP"

RoleHolds(op, m) ==
    /\ category(m) = "Meter"
    /\ SuccessorCategories(m) # {}
    /\ \A cat \in SuccessorCategories(m) : RoleCategory(op, cat)

RoleAnswer(op, m) ==
    CASE op = "is_pv_meter" -> is_pv_meter(m)
      [] op = "is_battery_meter" -> is_battery_meter(m)
      [] op = "is_ev_charger_meter" -> is_ev_charger_meter(m)
      [] op = "is_chp_meter" -> is_chp_meter(m)

(* C10: for every component id m of an accepted graph, each of is_pv_meter, *)
(* is_battery_meter, is_ev_charger_meter, is_chp_meter answers true exactly  *)
(* when m is a Meter with at least one successor whose successors are all,   *)
(* respectively, Solar inverters, Battery inverters (an Inverter(Unspecified)*)
(* counting iff allow_unspecified_inverters), EV chargers, CHPs; so at most  *)
(* one of the four is true of m, and none for a meter without successors.    *)
C10_MeterRoles ==
    /\ answer.op \in RoleQueries => answer.value = RoleHolds(answer.op, answer.id)
    /\ Accepted =>
          \A m \in ComponentIds :
             /\ Cardinality({op \in RoleQueries : RoleAnswer(op, m)}) <= 1
             /\ successors(m) = <<>> => \A op \in RoleQueries : ~RoleAnswer(op, m)

\* A meter above an allowed Inverter(Unspecified) is answered to be a battery meter
C10_Witness ==
    /\ answer.op = "is_battery_meter"
    /\ answer.value
    /\ "UnspecifiedInverter" \in SuccessorCategories(answer.id)

-----------------------------------------------------------------------------
(* The formulas of the site *)

\* The sequences that list every element of a set once
Orderings(ids) ==
    {order \in [1..Cardinality(ids) -> ids] :
        \A i, j \in 1..Cardinality(ids) : order[i] = order[j] => i = j}

\* The text of a sum of one term per element of a sequence
SumText(terms) ==
    IF Len(terms) = 1 THEN to_string(terms[1])
    ELSE to_string(Expr("Add", 0, terms))

RootSuccessors == Range(successors(root_id))

\* C11: on an accepted graph grid_formula() is the sum of
\* fallback_expr([s], prefer_meters = true) over the direct successors s of
\* the root, one summand for each of them and none for another component,
\* and it is "0.0" exactly when the root has no successors.
C11_GridFormulaSumsRootSuccessors ==
    answer.op = "grid_formula" =>
        /\ answer.value.error = NoError
        /\ (answer.value.formula = "0.0") <=> (RootSuccessors = {})
        /\ RootSuccessors # {} =>
               \E order \in Orderings(RootSuccessors) :
                   answer.value.formula =
                       SumText([k \in 1..Len(order) |->
                                   fallback_expr({order[k]}, TRUE).expr])

\* A root with two successors, one of them a meter with a fallback
C11_Witness ==
    /\ answer.op = "grid_formula"
    /\ Cardinality(RootSuccessors) = 2
    /\ \E s \in RootSuccessors : meter_fallback(s, TRUE) # <<>>
    /\ answer.value.formula # "0.0"

\* The nodes the producer formula counts: PV meters, CHP meters, solar
\* inverters and CHPs
Producers ==
    {id \in ComponentIds :
        \/ is_pv_meter(id)
        \/ is_chp_meter(id)
        \/ category(id) \in {"SolarInverter", "CHP"}}

\* C12: on an accepted graph producer_formula() is the sum, in ascending id
\* order, of MIN(0.0, fallback_expr([id], prefer_meters = false)) over exactly
\* the ids that find_all(root, PV meter or CHP meter or solar inverter or CHP,
\* follow_after_match = false) returns, and it is "0.0" exactly when there is
\* no such id.
C12_ProducerFormulaSumsClampedProducers ==
    answer.op = "producer_formula" =>
        LET ids == Ascending(find_all(root_id, Producers, FALSE).found)
        IN  /\ answer.value.error = NoError
            /\ (answer.value.formula = "0.0") <=> (ids = <<>>)
            /\ ids # <<>> =>
                   answer.value.formula =
                       SumText([k \in 1..Len(ids) |->
                                   Expr("Min", 0,
                                        <<Expr("Number", 0, <<>>),
                                          fallback_expr({ids[k]}, FALSE).expr>>)])

\* A PV or CHP meter and another producer beside it, the meter's own
\* producer being left out
C12_Witness ==
    /\ answer.op = "producer_formula"
    /\ Cardinality(find_all(root_id, Producers, FALSE).found) = 2
    /\ \E id \in find_all(root_id, Producers, FALSE).found : is_meter(category(id))
    /\ \E id \in Producers : id \notin find_all(root_id, Producers, FALSE).found

-----------------------------------------------------------------------------
(* The consumer formula *)

Meters == {id \in ComponentIds : category(id) = "Meter"}

\* The components that share a successor with a component
SharingSuccessor(m) ==
    {s \in ComponentIds \ {m} :
        Range(successors(s)) \cap Range(successors(m)) # {}}

\* The successors of a component and of those that share a successor with it
ClusterSuccessors(m) ==
    Range(successors(m)) \cup UNION {Range(successors(s)) : s \in SharingSuccessor(m)}

\* The contribution of a meter as the claim words it, the siblings added in
\* the order given
ClaimedContribution(m, order) ==
    LET zero == Expr("Number", 0, <<>>)
        added == <<Component(m)>> \o [k \in 1..Len(order) |-> Component(order[k])]
        xs == Ascending(ClusterSuccessors(m))
        subtracted ==
            [k \in 1..Len(xs) |->
                IF category(xs[k]) = "Meter" THEN fallback_expr({xs[k]}, TRUE).expr
                ELSE Component(xs[k])]
        plus == IF Len(added) = 1 THEN added[1] ELSE Expr("Add", 0, added)
        E == IF xs = <<>> THEN plus ELSE Expr("Sub", 0, <<plus>> \o subtracted)
        clamped == Expr("Max", 0, <<zero, E>>)
    IN  IF /\ successors(m) # <<>>
           /\ \A x \in Range(successors(m)) : category(x) # "Meter"
        THEN Expr("Coalesce", 0, <<clamped, zero>>)
        ELSE clamped

\* C13: in consumer_formula() the contribution of a meter m is MAX(0.0, E),
\* E being #m plus #s for every sibling s that shares a successor with m,
\* minus one term for each element x of the successors of m and of those
\* siblings, in ascending id order (fallback_expr([x], prefer_meters = true)
\* for a meter, #x otherwise); it is wrapped as COALESCE(MAX(0.0, E), 0.0)
\* exactly when m has a successor and no meter among its own successors.
C13_MeterContribution ==
    answer.op = "consumer_formula" =>
        \A m \in Meters :
            \E order \in Orderings(SharingSuccessor(m)) :
                to_string(component_consumption(m)) =
                    to_string(ClaimedContribution(m, order))

\* A meter without meter successors is merged with a sibling meter whose
\* other successor is a meter with a fallback of its own
C13_Witness ==
    /\ answer.op = "consumer_formula"
    /\ \E m \in Range(PoppedMeters(Meters \cap ReachableFromRoot)) :
          /\ successors(m) # <<>>
          /\ \A x \in Range(successors(m)) : category(x) # "Meter"
          /\ \E s \in SharingSuccessor(m) : category(s) = "Meter"
          /\ \E x \in ClusterSuccessors(m) \ Range(successors(m)) :
                meter_fallback(x, TRUE) # <<>>

\* The ids added in a contribution: the first parameter of the subtraction
\* inside MAX(0.0, ...), or the whole of it when nothing is subtracted
AddedIds(contribution) ==
    LET clamped == IF contribution.op = "Coalesce" THEN contribution.params[1]
                   ELSE contribution
        E == clamped.params[2]
        plus == IF E.op = "Sub" THEN E.params[1] ELSE E
    IN  IF plus.op = "Add" THEN [k \in 1..Len(plus.params) |-> plus.params[k].value]
        ELSE <<plus.value>>

\* The meters that consumer_formula gives a contribution of their own
ContributingMeters == PoppedMeters(Meters \cap ReachableFromRoot)

\* How many times an id is added over all the per-meter contributions
TimesAdded(id) ==
    LET added == Flatten([k \in 1..Len(ContributingMeters) |->
                             AddedIds(component_consumption(ContributingMeters[k]))])
    IN  Occurrences(added, id)

\* C14: in consumer_formula() on an accepted graph every meter reachable from
\* the root is added as #id in exactly one per-meter contribution, its own or
\* that of a meter it is merged into as a sibling; a meter merged as a
\* sibling gets no contribution of its own and is not added again later.
C14_EachMeterAddedOnce ==
    answer.op = "consumer_formula" =>
        \A m \in Meters \cap ReachableFromRoot : TimesAdded(m) = 1

\* The direct successors of the root that are neither meters nor battery
\* inverters
OtherRootSuccessors ==
    {x \in RootSuccessors : category(x) \notin {"Meter", "BatteryInverter"}}

\* C15: in consumer_formula() every direct successor x of the root that is
\* neither a meter nor a battery inverter contributes exactly MAX(0.0, #x), a
\* battery inverter directly under the root contributes nothing, these
\* contributions follow all the meter contributions, and the result is "0.0"
\* exactly when there is no reachable meter and no such root successor.
C15_OtherRootSuccessorsClamped ==
    answer.op = "consumer_formula" =>
        /\ answer.value.error = NoError
        /\ (answer.value.formula = "0.0")
               <=> (Meters \cap ReachableFromRoot = {} /\ OtherRootSuccessors = {})
        /\ ~(Meters \cap ReachableFromRoot = {} /\ OtherRootSuccessors = {}) =>
               \E order \in Orderings(OtherRootSuccessors) :
                   answer.value.formula =
                       SumText(AllMeters
                               \o [k \in 1..Len(order) |->
                                      Expr("Max", 0, <<Expr("Number", 0, <<>>),
                                                       Component(order[k])>>)])

\* A meter, a CHP and a battery inverter directly under the root
C15_Witness ==
    /\ answer.op = "consumer_formula"
    /\ \E x \in RootSuccessors : category(x) = "Meter"
    /\ \E x \in RootSuccessors : category(x) = "BatteryInverter"
    /\ \E x \in RootSuccessors : category(x) = "CHP"

-----------------------------------------------------------------------------
(* The category formulas *)

CategoryQueries == {"pv_formula", "battery_formula", "chp_formula", "ev_charger_formula"}

\* The category a category formula sums
SummedCategory(op) ==
    IF op = "pv_formula" THEN "SolarInverter"
    ELSE IF op = "battery_formula" THEN "BatteryInverter"
    ELSE IF op = "chp_formula" THEN "CHP"
    ELSE "EVCharger"

\* C16: pv_formula(None), battery_formula(None), chp_formula(None) and
\* ev_charger_formula(None) on an accepted graph render
\* fallback_expr(ids, prefer_meters = false), ids being what
\* find_all(root, is a solar inverter / battery inverter / CHP / EV charger,
\* follow_after_match = false) returns, and return "0.0" whenever the graph
\* has no component of that category.
C16_CategoryFormulaOfNone ==
    (answer.op \in CategoryQueries /\ answer.id = <<>>) =>
        LET of_category ==
                {id \in ComponentIds : category(id) = SummedCategory(answer.op)}
            ids == find_all(root_id, of_category, FALSE).found
        IN  /\ answer.value.error = NoError
            /\ of_category = {} => answer.value.formula = "0.0"
            /\ ids # {} =>
                   answer.value.formula = to_string(fallback_expr(ids, FALSE).expr)

\* battery_formula(None) on a graph with a battery inverter under a battery
\* meter
C16_Witness ==
    /\ answer.op = "battery_formula"
    /\ answer.id = <<>>
    /\ \E id \in ComponentIds :
          /\ category(id) = "BatteryInverter"
          /\ \E p \in Range(predecessors(id)) : is_battery_meter(p)
    /\ answer.value.formula # "0.0"

\* The category the ids given to a category formula must have
ExpectedCategory(op) ==
    IF op = "battery_formula" THEN "Battery" ELSE SummedCategory(op)

\* The ids of the query that name a component of another category
WrongIds ==
    {id \in answer.id[1] \cap ComponentIds : category(id) # ExpectedCategory(answer.op)}

\* An id of the query names no component and is smaller than every id of
\* another category
UnknownIdFirst ==
    \E u \in answer.id[1] \ ComponentIds : \A w \in WrongIds : u < w

\* C17: pv_formula, battery_formula, chp_formula or ev_charger_formula called
\* with a set of ids of which at least one names a component of another
\* category than the expected one returns an InvalidComponent error and no
\* formula, whatever the other ids are.
C17_WrongCategoryIsInvalidComponent ==
    (answer.op \in CategoryQueries /\ answer.id # <<>>) =>
        (WrongIds # {} =>
            /\ answer.value.error.kind = "InvalidComponent"
            /\ answer.value.formula = "")

\* C17, amended: such a call returns an error and no formula; the error is
\* InvalidComponent unless an id that names no component is smaller than
\* every id of another category, and then, for the PV, CHP and EV charger
\* formulas, it is ComponentNotFound.
C17_WrongCategoryIsAnError ==
    (answer.op \in CategoryQueries /\ answer.id # <<>>) =>
        (WrongIds # {} =>
            /\ answer.value.formula = ""
            /\ answer.value.error.kind \in {"InvalidComponent", "ComponentNotFound"}
            /\ ~UnknownIdFirst => answer.value.error.kind = "InvalidComponent"
            /\ (UnknownIdFirst /\ answer.op # "battery_formula") =>
                   answer.value.error.kind = "ComponentNotFound")

\* chp_formula is given the id of no component and the id of a component
\* that is no CHP
C17_Witness ==
    /\ answer.op = "chp_formula"
    /\ answer.id # <<>>
    /\ WrongIds # {}
    /\ UnknownIdFirst
    /\ answer.value.error.kind = "ComponentNotFound"

-----------------------------------------------------------------------------
(* The battery formula of given batteries *)

\* The nodes that share a predecessor with a component
SharingPredecessor(b) ==
    {n \in ComponentIds \ {b} :
        Range(predecessors(n)) \cap Range(predecessors(b)) # {}}

\* The batteries of the query that lack a sibling in the query
OffendingBatteries ==
    {b \in answer.id[1] \cap ComponentIds :
        /\ category(b) = "Battery"
        /\ ~(SharingPredecessor(b) \subseteq answer.id[1])}

\* The error that names a battery and the full list of its siblings
IsSiblingsError(e, b) ==
    /\ e.kind = "InvalidComponent"
    /\ e.msg = "Battery {} can't be in a formula without all its siblings: {:?}."
    /\ Head(e.ids) = b
    /\ Range(Tail(e.ids)) = SharingPredecessor(b)
    /\ Len(Tail(e.ids)) = Cardinality(SharingPredecessor(b))

\* C18: battery_formula(Some(S)) succeeds only if every node that shares a
\* predecessor with a battery of S is in S; otherwise it returns
\* InvalidComponent("Battery b can't be in a formula without all its
\* siblings: [...]") for the first offending battery b in ascending id order,
\* with the full list of its siblings.
C18_SiblingClosedOrSiblingsError ==
    (answer.op = "battery_formula" /\ answer.id # <<>>) =>
        /\ answer.value.error = NoError => OffendingBatteries = {}
        /\ OffendingBatteries # {} =>
               IsSiblingsError(answer.value.error, first(OffendingBatteries))

\* C18, amended: the siblings error for the first offending battery is
\* returned provided every smaller id of S names a battery of the graph.
C18_SiblingsErrorAfterBatteries ==
    (answer.op = "battery_formula" /\ answer.id # <<>>) =>
        /\ answer.value.error = NoError => OffendingBatteries = {}
        /\ (/\ OffendingBatteries # {}
            /\ \A i \in answer.id[1] :
                  i < first(OffendingBatteries) =>
                      (i \in ComponentIds /\ category(i) = "Battery")) =>
               IsSiblingsError(answer.value.error, first(OffendingBatteries))

\* Two batteries of three under one inverter are given: both lack the third,
\* the smaller one is named
C18_Witness ==
    /\ answer.op = "battery_formula"
    /\ answer.id # <<>>
    /\ Cardinality(OffendingBatteries) = 2
    /\ IsSiblingsError(answer.value.error, first(OffendingBatteries))

\* The query names batteries of the graph only, with all their siblings
SiblingClosedBatteries ==
    /\ answer.op = "battery_formula"
    /\ answer.id # <<>>
    /\ answer.id[1] # {}
    /\ \A b \in answer.id[1] : b \in ComponentIds /\ category(b) = "Battery"
    /\ OffendingBatteries = {}

\* The predecessors of the batteries of the query
BatteryPredecessors == UNION {Range(predecessors(b)) : b \in answer.id[1]}

\* C19: for a sibling-closed set S of battery ids of an accepted graph,
\* battery_formula(Some(S)) renders fallback_expr(P, prefer_meters = false),
\* P being the predecessors of the batteries in S, and every member of P is a
\* battery inverter, never a hybrid inverter or a component of another
\* category.
C19_SumsBatteryInvertersOnly ==
    SiblingClosedBatteries =>
        /\ answer.value.error = NoError
        /\ answer.value.formula = to_string(fallback_expr(BatteryPredecessors, FALSE).expr)
        /\ \A p \in BatteryPredecessors : category(p) = "BatteryInverter"


-----------------------------------------------------------------------------
(* The fallback of a meter *)

\* The summands of an expression: the parameters of a sum, or the expression
Summands(e) == IF e.op = "Add" THEN Range(e.params) ELSE {e}

\* The meters a fallback is sought for: they have successors, none a meter
FallbackMeters ==
    {c \in Meters : /\ successors(c) # <<>>
                    /\ Range(successors(c)) \cap Meters = {}}

\* The sums of the references to the successors of a component, in any order
SuccessorSums(c) ==
    {IF Len(order) = 1 THEN Component(order[1])
     ELSE Expr("Add", 0, [k \in 1..Len(order) |-> Component(order[k])]) :
        order \in Orderings(Range(successors(c)))}

AllSuccessorsSupported(c) ==
    \A s \in Range(successors(c)) : component(s).supported

\* The COALESCE summands of an expression that mention a component
CoalescesOf(e, c) ==
    {s \in Summands(e) : s.op = "Coalesce" /\ Component(c) \in Range(s.params)}

\* C20: in fallback_expr, an id c that is a Meter with at least one successor
\* and no Meter among its successors contributes
\* COALESCE(sum of #successors, #c) when prefer_meters is false and
\* COALESCE(#c, sum of #successors) when prefer_meters is true, provided
\* every successor is supported; if a successor is not supported it
\* contributes exactly the plain reference #c.
C20_MeterFallbackContribution ==
    answer.op = "fallback_expr" =>
        /\ answer.value.error = NoError
        /\ \A c \in answer.id[1] \cap FallbackMeters :
              LET summands == Summands(answer.value.expr)
              IN  IF AllSuccessorsSupported(c)
                  THEN /\ \E sum \in SuccessorSums(c) :
                             Expr("Coalesce", 0,
                                  IF answer.id[2] THEN <<Component(c), sum>>
                                  ELSE <<sum, Component(c)>>) \in summands
                       /\ \A s \in CoalescesOf(answer.value.expr, c) :
                             /\ Len(s.params) = 2
                             /\ s.params[IF answer.id[2] THEN 1 ELSE 2] = Component(c)
                  ELSE /\ Component(c) \in summands
                       /\ CoalescesOf(answer.value.expr, c) = {}

\* A meter with two supported successors asked about with prefer_meters,
\* together with another component
C20_Witness ==
    /\ answer.op = "fallback_expr"
    /\ answer.id[2]
    /\ Cardinality(answer.id[1]) = 2
    /\ \E c \in answer.id[1] \cap FallbackMeters :
          /\ Len(successors(c)) = 2
          /\ AllSuccessorsSupported(c)

-----------------------------------------------------------------------------
(* The fallback of an inverter, a CHP or an EV charger *)

\* The components the component fallback is sought for
FallbackComponents ==
    {c \in ComponentIds :
        category(c) \in {"BatteryInverter", "SolarInverter", "CHP", "EVCharger"}}

\* The work set as the first component leaves it when it is popped
Remaining == answer.id[1] \ {first(answer.id[1])}

\* The other successors of the predecessors of the first component
FirstSiblings == Range(siblings_from_predecessors(first(answer.id[1])))

\* The sum of the expressions of a sequence, as fallback_expr returns it
SumOf(exprs) == [error |-> NoError, expr |-> reduce(exprs)]

\* C21: in fallback resolution, when a component c of category Battery
\* inverter, Solar inverter, CHP or EV charger is popped from the work set
\* and at least one of its siblings from the predecessors is not in the
\* remaining work set, the resolver contributes exactly the plain reference
\* #c for it, leaves the remaining work set unchanged, and emits no
\* predecessor meter of c on behalf of c: the result is #c followed by the
\* resolution of the remaining work set.
C21_MissingSiblingGivesPlainReference ==
    (/\ answer.op = "fallback_expr"
     /\ first(answer.id[1]) \in FallbackComponents
     /\ ~(FirstSiblings \subseteq Remaining))
        => answer.value =
               SumOf(<<Component(first(answer.id[1]))>>
                        \o fallback_for_each(Remaining, answer.id[2]))

\* An inverter or CHP asked about without its sibling, the two of them
\* below a component meter
C21_Witness ==
    /\ answer.op = "fallback_expr"
    /\ first(answer.id[1]) \in FallbackComponents
    /\ FirstSiblings # {}
    /\ FirstSiblings \cap Remaining = {}
    /\ \A p \in Range(predecessors(first(answer.id[1]))) : is_component_meter(p)

\* C22, as the specification states it: when every sibling of the popped
\* component c is in the remaining work set, the siblings are removed and the
\* resolution of the predecessors of c stands in place of c and its siblings.
C22_AllSiblingsGivePredecessors ==
    (/\ answer.op = "fallback_expr"
     /\ first(answer.id[1]) \in FallbackComponents
     /\ FirstSiblings \subseteq Remaining)
        => answer.value =
               SumOf(fallback_for_each(
                         Range(predecessors(first(answer.id[1]))), answer.id[2])
                     \o fallback_for_each(Remaining \ FirstSiblings, answer.id[2]))

\* C22, amended: when every sibling of the popped component c is in the
\* remaining work set and every predecessor of c is a component meter, the
\* siblings are removed, the resolution of the predecessors of c stands in
\* place of c and its siblings, and neither #c nor a sibling is a plain
\* summand; when a predecessor is no component meter, c contributes #c and
\* the remaining work set is left as it is.
C22_AllSiblingsGiveComponentMeters ==
    (/\ answer.op = "fallback_expr"
     /\ first(answer.id[1]) \in FallbackComponents
     /\ FirstSiblings \subseteq Remaining)
        => IF \A p \in Range(predecessors(first(answer.id[1]))) :
                  is_component_meter(p)
           THEN /\ answer.value =
                       SumOf(fallback_for_each(
                                 Range(predecessors(first(answer.id[1]))),
                                 answer.id[2])
                             \o fallback_for_each(Remaining \ FirstSiblings,
                                                  answer.id[2]))
                /\ \A s \in {first(answer.id[1])} \cup FirstSiblings :
                       Component(s) \notin Summands(answer.value.expr)
           ELSE answer.value =
                    SumOf(<<Component(first(answer.id[1]))>>
                             \o fallback_for_each(Remaining, answer.id[2]))

\* An inverter or CHP asked about together with its sibling below a
\* component meter
C22_Witness ==
    /\ answer.op = "fallback_expr"
    /\ first(answer.id[1]) \in FallbackComponents
    /\ FirstSiblings # {}
    /\ FirstSiblings \subseteq Remaining
    /\ \A p \in Range(predecessors(first(answer.id[1]))) : is_component_meter(p)

-----------------------------------------------------------------------------
(* The terms of the producer formula *)

\* The sets of components whose MIN(0.0, ...) terms, in ascending order of
\* the ids, make up the producer formula that was returned
ProducerTermSets ==
    {ids \in SUBSET ComponentIds \ {{}} :
        answer.value.formula =
            SumText([k \in 1..Cardinality(ids) |->
                        Expr("Min", 0,
                             <<Expr("Number", 0, <<>>),
                               fallback_expr({Ascending(ids)[k]}, FALSE).expr>>)])}

\* C23: in producer_formula() on an accepted graph, when a meter counted as
\* a PV meter or CHP meter contributes a MIN(0.0, ...) term, none of its
\* successors contributes a MIN(0.0, ...) term of its own.
C23_NoTermForSuccessorOfCountedMeter ==
    answer.op = "producer_formula" =>
        \A ids \in ProducerTermSets :
            \A m \in ids \cap Meters : Range(successors(m)) \cap ids = {}

-----------------------------------------------------------------------------
(* find_all *)

\* The components reached from a set of them by outgoing edges that leave
\* no component of stop
RECURSIVE ReachedFrom(_, _)
ReachedFrom(reached, stop) ==
    LET further == reached \cup UNION {Range(successors(c)) : c \in reached \ stop}
    IN  IF further = reached THEN reached ELSE ReachedFrom(further, stop)

\* C24: find_all(start, p, true) returns exactly the ids of the nodes
\* reachable from start by outgoing edges, start included, of which p holds;
\* find_all(start, p, false) returns exactly the ids of the nodes n of which
\* p holds and to which a directed path leads from start with no node before
\* n of which p holds; an unknown start yields ComponentNotFound.
C24_FindAllIsTheReachableMatches ==
    answer.op = "find_all" =>
        LET start == answer.id[1]
            matching == answer.id[2]
        IN  IF start \notin ComponentIds
            THEN /\ answer.value.error.kind = "ComponentNotFound"
                 /\ answer.value.error.ids = <<start>>
            ELSE /\ answer.value.error = NoError
                 /\ answer.value.found =
                        matching \cap ReachedFrom({start},
                                                  IF answer.id[3] THEN {}
                                                  ELSE matching)

\* A search that stops at matches, on a graph where one match lies behind
\* another and a third is reached past a component that does not match
C24_Witness ==
    /\ answer.op = "find_all"
    /\ ~answer.id[3]
    /\ answer.id[1] \in ComponentIds \ answer.id[2]
    /\ Cardinality(answer.value.found) = 2
    /\ Cardinality(answer.id[2] \cap ReachedFrom({answer.id[1]}, {})) = 3

-----------------------------------------------------------------------------
(* The arithmetic of the expressions and their rendering *)

\* C25: unary negation is an involution on the rendered form: for every
\* expression x built from component leaves with the +, binary - and unary -
\* operators, a Sub with compound parameters included, -(-x) renders to
\* exactly the same string as x.
C25_DoubleNegationRendersTheSame ==
    pc = "expr" => to_string(neg(neg(answer.value))) = to_string(answer.value)

\* The top-level summands of an operand of an addition
TopSummands(e) == IF e.op = "Add" THEN e.params ELSE <<e>>

\* The operands of an addition that are no Neg
PlainOperands == {b.expr : b \in {o \in Operands(MaxOperandDepth) : o.expr.op # "Neg"}}

\* C26: addition flattens and is associative at the rendered level: for all
\* expressions x, y, z built by the operators, none of which is a Neg,
\* (x + y) + z and x + (y + z) are the same Add node, whose parameter list is
\* the concatenation of the operands' top-level summands from left to right,
\* and they render the same string.
C26_AdditionFlattensAndAssociates ==
    (pc = "expr" /\ answer.value.op # "Neg") =>
        \A y, z \in PlainOperands :
            /\ add(add(answer.value, y), z) = add(answer.value, add(y, z))
            /\ add(add(answer.value, y), z) =
                   Expr("Add", 0, TopSummands(answer.value) \o TopSummands(y)
                                      \o TopSummands(z))
            /\ to_string(add(add(answer.value, y), z)) =
                   to_string(add(answer.value, add(y, z)))

\* A sum of a difference and a component, built by the operators: added to
\* sums and differences it is flattened on the left and on the right
C26_Witness ==
    /\ pc = "expr"
    /\ answer.value.op = "Add"
    /\ Len(answer.value.params) = 2
    /\ answer.value.params[1].op = "Sub"
    /\ \E y, z \in PlainOperands : y.op = "Add" /\ z.op = "Sub"

\* The integers given to the components
Assignments == [1..MaxLeafId -> {-3, 1, 10}]

\* The value of an expression as it is written with the operators
RECURSIVE WrittenValue(_, _)
WrittenValue(written, v) ==
    IF written.op = "component" THEN v[written.value]
    ELSE IF written.op = "neg" THEN 0 - WrittenValue(written.args[1], v)
    ELSE IF written.op = "add"
    THEN WrittenValue(written.args[1], v) + WrittenValue(written.args[2], v)
    ELSE WrittenValue(written.args[1], v) - WrittenValue(written.args[2], v)

\* Reading a rendered string from its i-th character on: a term is -term,
\* (sum) or #k, a sum is terms joined by " + " and " - " from left to right;
\* value is what was read and next the place after it
RECURSIVE ReadTerm(_, _, _)
RECURSIVE ReadRest(_, _, _, _)
ReadTerm(s, i, v) ==
    IF SubSeq(s, i, i) = "-"
    THEN LET term == ReadTerm(s, i + 1, v)
         IN  [value |-> 0 - term.value, next |-> term.next]
    ELSE IF SubSeq(s, i, i) = "("
    THEN LET first_term == ReadTerm(s, i + 1, v)
             sum == ReadRest(s, first_term.next, first_term.value, v)
         IN  [value |-> sum.value, next |-> sum.next + 1]
    ELSE [value |-> v[CHOOSE k \in 1..MaxLeafId : ToString(k) = SubSeq(s, i + 1, i + 1)],
          next |-> i + 2]

ReadRest(s, i, value, v) ==
    IF i + 3 <= Len(s) /\ SubSeq(s, i, i) = " "
    THEN LET term == ReadTerm(s, i + 3, v)
         IN  ReadRest(s, term.next,
                      IF SubSeq(s, i + 1, i + 1) = "+" THEN value + term.value
                      ELSE value - term.value,
                      v)
    ELSE [value |-> value, next |-> i]

\* The value of a rendered string, read to its end
ReadValue(s, v) ==
    LET first_term == ReadTerm(s, 1, v)
    IN  ReadRest(s, first_term.next, first_term.value, v).value

\* C30: canonicalisation and rendering preserve the arithmetic value: for
\* every expression built from component leaves with +, binary - and unary -
\* and every assignment of integers to the components, the rendered string,
\* read with ordinary precedence, + and - from left to right, and its
\* parentheses, has the value of the expression as it was written.
C30_RenderingKeepsTheValue ==
    pc = "expr" =>
        \A v \in Assignments :
            ReadValue(to_string(answer.value), v) = WrittenValue(answer.id, v)

-----------------------------------------------------------------------------
(* The formulas under every configuration *)

FormulaQueries ==
    {"grid_formula", "producer_formula", "consumer_formula", "pv_formula",
     "battery_formula", "chp_formula", "ev_charger_formula"}

\* C27: on a graph accepted by try_new, under any configuration and for any
\* argument, none of grid_formula, producer_formula, consumer_formula,
\* pv_formula, battery_formula, chp_formula and ev_charger_formula returns
\* an error of kind Internal.
C27_NoInternalError ==
    answer.op \in FormulaQueries => answer.value.error.kind # "Internal"

\* The components a rendered formula refers to
References(formula) ==
    {id \in ComponentIds :
        \E i \in 1..(Len(formula) - 1) :
            SubSeq(formula, i, i + 1) = "#" \o ToString(id)}

\* The meters among the predecessors of a component
PredecessorMeters(id) == Range(predecessors(id)) \cap Meters

\* C29: for every accepted graph, under any configuration, and every explicit
\* id set that pv_formula, chp_formula or ev_charger_formula accepts, the
\* returned formula accounts for every requested id: it refers to the id
\* itself or to a predecessor meter of it.
C29_EveryRequestedIdIsAccountedFor ==
    (/\ answer.op \in {"pv_formula", "chp_formula", "ev_charger_formula"}
     /\ answer.id # <<>>
     /\ answer.value.error = NoError)
        => \A id \in answer.id[1] :
               References(answer.value.formula)
                   \cap ({id} \cup PredecessorMeters(id)) # {}

-----------------------------------------------------------------------------
(* Termination, with every loop run step by step *)

\* The calls that are running
Running ==
    {"validate_acyclicity", "validate_connected_graph", "find_all",
     "fallback_for_each"}

\* The ids an inner call of fallback_for_each has still to resolve
RecursedOn ==
    IF pc = "fallback_for_each"
    THEN UNION {answer.value[k].component_ids : k \in 2..Len(answer.value)}
    ELSE {}

\* C28: try_new terminates on every finite input, cycles reachable or not
\* reachable from the root included, and find_all and fallback_expr, the
\* loops the formula methods are made of, terminate on every graph that
\* try_new accepted; the recursion of fallback resolution on the predecessors
\* is never more than one level deep, and every predecessor it recurses on is
\* resolved by the meter-fallback rule.  Each call returns what the function
\* computed as a whole returns.
C28_CallsReturnAndRecursionIsFlat ==
    /\ [](pc \in Running => <>(pc = "done"))
    /\ [](pc = "fallback_for_each" => Len(answer.value) <= 2)
    /\ [](\A id \in RecursedOn : meter_fallback(id, answer.id[2]) # <<>>)
    /\ [][(pc \in {"validate_acyclicity", "validate_connected_graph"} /\ pc' = "done")
              => (result' = validate')]_vars
    /\ [](answer.op = "find_all"
              => answer.value[1] = find_all(answer.id[1], answer.id[2], answer.id[3]))
    /\ [](answer.op = "fallback_expr"
              => answer.value[1] = fallback_expr(answer.id[1], answer.id[2]))

\* The recursion on the predecessors is entered on an accepted graph with a
\* cycle that the root does not reach
C28_Witness ==
    /\ pc = "fallback_for_each"
    /\ Len(answer.value) = 2
    /\ answer.value[2].component_ids # {}
    /\ \E cid \in ComponentIds \ ReachableFromRoot : OnCycle(cid)

====
